---- MODULE Spec2Model ----
(***************************************************************************)
(* A model of the MPR (Message Pack Rows) container of ambry_sources:      *)
(* src/ambry_sources/mpf.py, classes MPRowsFile, MPRWriter and MPRReader.  *)
(*                                                                         *)
(* One MPR file on one filesystem path is modelled, with the MPRowsFile    *)
(* object that caches its writer.  Byte offsets inside the row stream are  *)
(* abstract: every msgpack frame written to the compressor advances the    *)
(* handle by one unit.  The 34 header bytes are modelled byte by byte.     *)
(* Failures of the storage device itself are not modelled; the one write   *)
(* failure that is modelled is the deterministic one of a compressor that  *)
(* was created on a handle opened 'r+b' (see GzipMode).                    *)
(***************************************************************************)
EXTENDS Integers, Sequences, FiniteSets, TLC

VARIABLES
    disk,      \* the file at MPRowsFile.path: header, row stream, meta block
    w,         \* the MPRWriter cached in MPRowsFile._writer
    pc,        \* position of MPRowsFile._load_rows ("idle" when not running)
    largs,     \* arguments of the running load_rows call
    last,      \* the most recent public call and what it returned or raised
    accepted,  \* history: rows of the insert calls that returned normally
    loadDone,  \* history: a load_rows call on this file ran to its end
    hin,       \* header codec: the header object handed to write_file_header
    hbytes,    \* header codec: the bytes write_file_header produced
    hout,      \* header codec: the object read_file_header filled in
    mw,        \* meta block: the writer whose meta is being edited
    mdisk,     \* meta block: what the last close left in header and meta
    mhist,     \* meta block: history of the running or last writer session
    sw,        \* schema: the writer or reader object that holds meta['schema']
    slast,     \* schema: the last call on it and the error it raised
    cin,       \* cell codec: the row handed to the writer
    cwire,     \* cell codec: the msgpack frame in the row stream
    cout,      \* cell codec: what the reader's unpacker returned or raised
    rd,        \* reader: the MPRReader cached in MPRowsFile._reader
    iter,      \* reader: the iterator the client is consuming
    nw,        \* column count: a writer on a new file
    npassed,   \* column count: history, the rows passed to it so far
    bf,        \* meta bytes: the bytes from meta_start on, and the writer's meta
    mg,        \* header mangler: an input string and what the mangler made of it
    curs,      \* SQL adapter: the cursors opened on one virtual table
    db,        \* SQL adapter: the connection add_partition works on
    sq,        \* SQL adapter: a schema handed to Source.Create and its result
    stat,      \* statistics: one StatSet and the values added to it
    sr,        \* statistics: one Stats.run call over a source
    dl,        \* download: the cache entry and the processes downloading it
    sel,       \* select: one select() call on a reader and what it yielded
    cls,       \* classified rows: one meta_raw iteration of a new reader
    held       \* a writer object the client still holds after closing it

vars == <<disk, w, pc, largs, last, accepted, loadDone, hin, hbytes, hout,
          mw, mdisk, mhist, sw, slast, cin, cwire, cout, rd, iter, nw, npassed,
          bf, mg, curs, db, sq, stat, sr, dl, sel, cls, held>>
mvars == <<disk, w, pc, largs, last, accepted, loadDone>>
hvars == <<hin, hbytes, hout>>
tvars == <<mw, mdisk, mhist>>
\* the variables the file model leaves alone
svars == <<sw, slast>>
cvars == <<cin, cwire, cout>>
rvars == <<rd, iter>>
nvars == <<nw, npassed>>
fvars == <<sr, dl, sel, cls, held>>
evars == <<bf, mg, curs, db, sq, stat, fvars>>
ovars == <<hvars, tvars, svars, cvars, rvars, nvars, evars>>
\* the variables each of the other models leaves alone
notH == <<mvars, tvars, svars, cvars, rvars, nvars, evars>>
notT == <<mvars, hvars, svars, cvars, rvars, nvars, evars>>
notS == <<mvars, hvars, tvars, cvars, rvars, nvars, evars>>
notC == <<mvars, hvars, tvars, svars, rvars, nvars, evars>>
notR == <<hvars, tvars, svars, cvars, nvars, evars>>
notN == <<mvars, hvars, tvars, svars, cvars, rvars, evars>>
base == <<mvars, hvars, tvars, svars, cvars, rvars, nvars, fvars>>
prior == <<mvars, hvars, tvars, svars, cvars, rvars, nvars,
           bf, mg, curs, db, sq, stat>>
notSr == <<prior, dl, sel, cls, held>>
notDl == <<prior, sr, sel, cls, held>>
notSel == <<prior, sr, dl, cls, held>>
notCls == <<prior, sr, dl, sel, held>>
\* what a call on a held writer leaves alone
notHeld == <<pc, largs, accepted, loadDone, hvars, tvars, svars, cvars, rvars,
             nvars, bf, mg, curs, db, sq, stat, sr, dl, sel, cls>>
notB == <<base, mg, curs, db, sq, stat>>
notG == <<base, bf, curs, db, sq, stat>>
notD == <<base, bf, mg, curs, sq, stat>>
notQ == <<base, bf, mg, curs, db, stat>>
notA == <<base, bf, mg, curs, db, sq>>

----------------------------------------------------------------------------
(* Bounds                                                                  *)

MaxRows == 2        \* most rows a writer counts in n_rows
MaxBatch == 2       \* longest list handed to insert_rows / longest source

----------------------------------------------------------------------------
(* Values                                                                  *)

None == -1          \* Python None in an integer field

Rows == {<<1>>, <<2, 3>>}     \* two rows of different width

RECURSIVE SeqsUpTo(_, _)
SeqsUpTo(S, n) ==
    IF n = 0 THEN {<<>>}
    ELSE LET P == SeqsUpTo(S, n - 1)
         IN P \cup {Append(q, x) : q \in {p \in P : Len(p) = n - 1}, x \in S}

Batches == SeqsUpTo(Rows, MaxBatch)

Max(a, b) == IF a >= b THEN a ELSE b
Min(a, b) == IF a <= b THEN a ELSE b

\* Python truth value of an integer-or-None field
Truthy(x) == x # None /\ x # 0

RECURSIVE Flatten(_)
Flatten(ss) == IF ss = <<>> THEN <<>> ELSE Head(ss) \o Flatten(Tail(ss))

\* reduce(max, (len(e) for e in rows), m)
MaxLen(rows, m) ==
    LET lens == {Len(rows[i]) : i \in 1 .. Len(rows)} \cup {m}
    IN CHOOSE x \in lens : \A y \in lens : x >= y

----------------------------------------------------------------------------
(* The file header: struct '>8sHIIQII'                                     *)

MAGIC == <<65, 77, 66, 82, 77, 80, 68, 70>>      \* 'AMBRMPDF'
VERSION == 1
FILE_HEADER_FORMAT_SIZE == 34

\* big-endian encoding of v in n bytes
RECURSIVE BE(_, _)
BE(v, n) == IF n = 0 THEN <<>> ELSE Append(BE(v \div 256, n - 1), v % 256)

RECURSIVE UnBE(_)
UnBE(bs) ==
    IF bs = <<>> THEN 0
    ELSE 256 * UnBE(SubSeq(bs, 1, Len(bs) - 1)) + bs[Len(bs)]

\* the value packed into the data_end_row slot: a data_end_row of None or 0
\* is replaced by n_rows
PackedEndRow(o) == IF Truthy(o.data_end_row) THEN o.data_end_row ELSE o.n_rows

write_file_header(o) ==
    MAGIC \o BE(VERSION, 2) \o BE(o.n_rows, 4) \o BE(o.n_cols, 4)
          \o BE(o.meta_start, 8) \o BE(o.data_start_row, 4)
          \o BE(PackedEndRow(o), 4)

\* read_file_header unpacks the seven fields; it compares neither magic nor
\* version with the class constants
read_file_header(bs) ==
    [magic          |-> SubSeq(bs, 1, 8),
     version        |-> UnBE(SubSeq(bs, 9, 10)),
     n_rows         |-> UnBE(SubSeq(bs, 11, 14)),
     n_cols         |-> UnBE(SubSeq(bs, 15, 18)),
     meta_start     |-> UnBE(SubSeq(bs, 19, 26)),
     data_start_row |-> UnBE(SubSeq(bs, 27, 30)),
     data_end_row   |-> UnBE(SubSeq(bs, 31, 34))]

----------------------------------------------------------------------------
(* The file on disk and the writer object                                  *)

\* META_TEMPLATE, reduced to the fields the model follows:
\* meta['process']['finalized'] and the length of meta['warnings']
META_TEMPLATE == [finalized |-> FALSE, warnings |-> 0]

NoHeader ==
    [magic |-> MAGIC, version |-> 0, n_rows |-> 0, n_cols |-> 0,
     meta_start |-> 0, data_start_row |-> 0, data_end_row |-> 0]

NoFile ==
    [exists |-> FALSE, hdr |-> NoHeader, stream |-> <<>>, meta |-> META_TEMPLATE]

\* MPRowsFile._writer = None
NoWriter ==
    [open |-> FALSE, zmode |-> "w", pos |-> 0, n_rows |-> 0, n_cols |-> 0,
     meta_start |-> 0, data_start_row |-> 0, data_end_row |-> None,
     cache |-> <<>>, meta |-> META_TEMPLATE]

\* MPRowsFile.writer opens the handle 'r+b' when the file exists and 'wb'
\* otherwise; GzipFile(fileobj=fh) takes its mode from the handle, so the
\* compressor of a writer on an existing file is a read-only GzipFile
GzipMode(existed) == IF existed THEN "r" ELSE "w"

\* MPRWriter.__init__: returns the writer and the file it leaves on disk
MPRWriter_init(d) ==
    IF d.exists
    THEN \* the header and the meta of the existing file are read, the
         \* handle is left at meta_start
         [w |-> [open |-> TRUE, zmode |-> GzipMode(TRUE),
                 pos |-> d.hdr.meta_start,
                 n_rows |-> d.hdr.n_rows, n_cols |-> d.hdr.n_cols,
                 meta_start |-> d.hdr.meta_start,
                 data_start_row |-> d.hdr.data_start_row,
                 data_end_row |-> d.hdr.data_end_row,
                 cache |-> <<>>, meta |-> d.meta],
          disk |-> d]
    ELSE \* a new file: the header is written with meta_start = data_start
         LET w0 == [open |-> TRUE, zmode |-> GzipMode(FALSE),
                    pos |-> FILE_HEADER_FORMAT_SIZE,
                    n_rows |-> 0, n_cols |-> 0,
                    meta_start |-> FILE_HEADER_FORMAT_SIZE,
                    data_start_row |-> 0, data_end_row |-> None,
                    cache |-> <<>>, meta |-> META_TEMPLATE]
         IN [w |-> w0,
             disk |-> [exists |-> TRUE,
                       hdr |-> read_file_header(write_file_header(w0)),
                       stream |-> <<>>, meta |-> META_TEMPLATE]]

N_COLS_SCAN == 100      \* rows[:100] in _write_rows

\* MPRWriter._write_rows(rows): rows = <<>> stands for a call without rows
\* (or with an empty list), which writes the cache.  ok = FALSE is IOError.
write_rows(wr, d, rows) ==
    LET clear_cache == rows = <<>>
        rs == IF clear_cache THEN wr.cache ELSE rows
    IN IF rs = <<>> THEN [w |-> wr, disk |-> d, ok |-> TRUE]
       ELSE IF wr.zmode # "w" THEN [w |-> wr, disk |-> d, ok |-> FALSE]
       ELSE [w |-> [wr EXCEPT
                      !.pos = @ + 1,
                      !.n_cols = MaxLen(SubSeq(rs, 1, Min(Len(rs), N_COLS_SCAN)), @),
                      !.cache = IF clear_cache THEN <<>> ELSE @],
             disk |-> [d EXCEPT !.stream = Append(@, rs)],
             ok |-> TRUE]

\* MPRWriter.insert_row: count, cache, then write the cache at once
\* ('if True or len(self.cache) >= self.BLOCK_SIZE')
insert_row_Buffered(wr, d, row) ==
    [w |-> [wr EXCEPT !.n_rows = @ + 1, !.cache = Append(@, row)],
     disk |-> d, ok |-> TRUE]

insert_row(wr, d, row) ==
    write_rows([wr EXCEPT !.n_rows = @ + 1, !.cache = Append(@, row)], d, <<>>)

\* MPRWriter.insert_rows: count, then write the list as one frame
insert_rows(wr, d, rows) ==
    write_rows([wr EXCEPT !.n_rows = @ + Len(rows)], d, rows)

\* MPRWriter.load_rows: insert_row for every row the source yields, up to
\* the first failure, then a last _write_rows()
RECURSIVE load_rows(_, _, _)
load_rows(wr, d, rows) ==
    IF rows = <<>> THEN write_rows(wr, d, <<>>)
    ELSE LET r == insert_row(wr, d, Head(rows))
         IN IF r.ok THEN load_rows(r.w, r.disk, Tail(rows)) ELSE r

\* MPRWriter.close: flush the cache, take meta_start from the handle
\* position, rewrite the header, write the meta, drop the handle
close(wr, d) ==
    LET r == write_rows(wr, d, <<>>)
    IN IF ~r.ok THEN r
       ELSE LET w2 == [r.w EXCEPT !.meta_start = r.w.pos]
            IN [w |-> NoWriter,
                disk |-> [exists |-> TRUE,
                          hdr |-> read_file_header(write_file_header(w2)),
                          stream |-> r.disk.stream,
                          meta |-> w2.meta],
                ok |-> TRUE]

----------------------------------------------------------------------------
(* The reader                                                              *)

\* MPRReader.raw: every row of every frame stored before meta_start
raw(d) ==
    Flatten(SubSeq(d.stream, 1,
                   Min(Len(d.stream), d.hdr.meta_start - FILE_HEADER_FORMAT_SIZE)))

\* MPRReader.rows: the rows at positions data_start_row..data_end_row,
\* positions counted from 0
RECURSIVE Between(_, _, _, _)
Between(rs, pos, lo, hi) ==
    IF rs = <<>> THEN <<>>
    ELSE (IF lo <= pos /\ pos <= hi THEN <<Head(rs)>> ELSE <<>>)
         \o Between(Tail(rs), pos + 1, lo, hi)

rows(d) == Between(raw(d), 0, d.hdr.data_start_row, d.hdr.data_end_row)

\* MPRReader.is_finalized
is_finalized(d) == d.meta.finalized

----------------------------------------------------------------------------
(* Public calls on the writer and the reader                               *)

\* what a call left behind: its name, the error it raised ("none" when it
\* returned), the load_rows step it ended in, and what a reader saw
Outcome(op, err, at, hdr, out) ==
    [op |-> op, err |-> err, at |-> at, hdr |-> hdr, out |-> out]

Returned(op) == Outcome(op, "none", "", NoHeader, <<>>)
Raised(op, err) == Outcome(op, err, "", NoHeader, <<>>)

Idle == pc = "idle"

NoArgs ==
    [intuit_rows |-> FALSE, intuit_type |-> FALSE, run_stats |-> FALSE,
     spec |-> FALSE, start_line |-> 0, end_line |-> None]

\* MPRowsFile.writer: create the writer unless one is cached
OpenWriter ==
    /\ Idle
    /\ ~w.open
    /\ LET r == MPRWriter_init(disk)
       IN /\ w' = r.w
          /\ disk' = r.disk
    /\ last' = Returned("writer")
    /\ UNCHANGED <<pc, largs, accepted, loadDone, ovars>>

\* writer.insert_row(row)
InsertRow(row) ==
    /\ Idle
    /\ w.open
    /\ w.n_rows < MaxRows
    /\ LET r == insert_row(w, disk, row)
       IN /\ w' = r.w
          /\ disk' = r.disk
          /\ last' = IF r.ok THEN Returned("insert_row")
                     ELSE Raised("insert_row", "IOError")
          /\ accepted' = IF r.ok THEN Append(accepted, row) ELSE accepted
    /\ UNCHANGED <<pc, largs, loadDone, ovars>>

\* writer.insert_rows(batch)
InsertRows(batch) ==
    /\ Idle
    /\ w.open
    /\ w.n_rows + Len(batch) <= MaxRows
    /\ LET r == insert_rows(w, disk, batch)
       IN /\ w' = r.w
          /\ disk' = r.disk
          /\ last' = IF r.ok THEN Returned("insert_rows")
                     ELSE Raised("insert_rows", "IOError")
          /\ accepted' = IF r.ok THEN accepted \o batch ELSE accepted
    /\ UNCHANGED <<pc, largs, loadDone, ovars>>

\* the data range a row spec may name for a file of n rows: a first data row
\* and a last one (or None) inside the file
RowSpecs(n) ==
    {<<s, e>> \in (0 .. Max(n - 1, 0)) \X ({None} \cup (0 .. Max(n - 1, 0))) :
        e = None \/ s <= e}

\* MPRWriter.set_row_spec: the data range is taken from the RowIntuiter or
\* the SourceSpec; an end line of None or 0 becomes None
set_row_spec(wr, s, e) ==
    [wr EXCEPT !.data_start_row = s,
               !.data_end_row = IF Truthy(e) THEN e ELSE None]

\* with f.writer as w: w.set_row_spec(ri) -- set_row_spec works inside its
\* own 'with self.parent.writer' block, whose exit closes the writer
SetRowSpec(s, e) ==
    /\ Idle
    /\ w.open
    /\ <<s, e>> \in RowSpecs(w.n_rows)
    /\ LET r == close(set_row_spec(w, s, e), disk)
       IN /\ w' = r.w
          /\ disk' = r.disk
          /\ last' = IF r.ok THEN Returned("set_row_spec")
                     ELSE Raised("set_row_spec", "IOError")
    /\ UNCHANGED <<pc, largs, accepted, loadDone, ovars>>

\* MPRWriter.finalize
finalize_Nothing(wr) == wr

finalize(wr) == [wr EXCEPT !.meta.finalized = TRUE]

Finalize ==
    /\ Idle
    /\ w.open
    /\ w' = finalize(w)
    /\ last' = Returned("finalize")
    /\ UNCHANGED <<disk, pc, largs, accepted, loadDone, ovars>>

\* writer.close(), also the exit of a 'with f.writer' block
CloseWriter ==
    /\ Idle
    /\ w.open
    /\ LET r == close(w, disk)
       IN /\ w' = r.w
          /\ disk' = r.disk
          /\ last' = IF r.ok THEN Returned("close") ELSE Raised("close", "IOError")
    /\ UNCHANGED <<pc, largs, accepted, loadDone, ovars>>

\* MPRReader.__init__ raises nothing for a header that unpacks
MPRReader_init(d) == "none"

\* with f.reader as r: list(r.raw)
ReadRaw ==
    /\ Idle
    /\ disk.exists
    /\ ~w.open
    /\ last' = Outcome("raw", MPRReader_init(disk), "", disk.hdr, raw(disk))
    /\ UNCHANGED <<disk, w, pc, largs, accepted, loadDone, ovars>>

\* with f.reader as r: list(r.rows)
ReadRows ==
    /\ Idle
    /\ disk.exists
    /\ ~w.open
    /\ last' = Outcome("rows", MPRReader_init(disk), "", disk.hdr, rows(disk))
    /\ UNCHANGED <<disk, w, pc, largs, accepted, loadDone, ovars>>

\* MPRowsFile.remove
Remove ==
    /\ Idle
    /\ disk.exists
    /\ ~w.open
    /\ disk' = NoFile
    /\ accepted' = <<>>
    /\ loadDone' = FALSE
    /\ last' = Returned("remove")
    /\ UNCHANGED <<w, pc, largs, ovars>>

\* a file that did not come from this version of the writer is put at the
\* path: its first 34 bytes unpack, but magic or version differ from MAGIC
\* and VERSION
OTHER_MAGIC == <<65, 77, 66, 82, 77, 80, 68, 71>>

Foreign ==
    /\ Idle
    /\ disk.exists
    /\ ~w.open
    /\ disk.hdr.magic = MAGIC /\ disk.hdr.version = VERSION
    /\ \/ disk' = [disk EXCEPT !.hdr.magic = OTHER_MAGIC]
       \/ disk' = [disk EXCEPT !.hdr.version = VERSION + 1]
    /\ last' = Returned("foreign")
    /\ UNCHANGED <<w, pc, largs, accepted, loadDone, ovars>>

----------------------------------------------------------------------------
(* MPRowsFile.load_rows / _load_rows                                       *)

\* intuit_rows = None is decided by the source's spec
IntuitRows(ir, given, has_rowspec) ==
    IF ir = "auto" THEN (IF ~given THEN TRUE ELSE ~has_rowspec) ELSE ir = "yes"

Ended(err, at) == Outcome("load_rows", err, at, NoHeader, <<>>)

\* the handler of MPRowsFile.load_rows: 'except: raise' re-raises at once,
\* the two lines after it that close the writer and remove the file are
\* never run
OnLoadError(d) == d

\* a writer session of one load_rows step on the closed file:
\* 'with self.writer as w' ... exit
Reopen(d) == MPRWriter_init(d).w

n_rows_None(d) == None

\* MPRowsFile.n_rows: None without a file, else the header's n_rows
n_rows(d) == IF d.exists THEN d.hdr.n_rows ELSE None

\* load_rows on a file that has rows: "rows already loaded"
LoadRowsRefused ==
    /\ Idle
    /\ ~w.open
    /\ Truthy(n_rows(disk))
    /\ last' = Ended("MPRError", "check")
    /\ UNCHANGED <<disk, w, pc, largs, accepted, loadDone, ovars>>

\* the spec attribute of a source that yields n rows: none, or a SourceSpec
\* with its has_rowspec flag and its start and end line
SourceSpecs(n) ==
    {[given |-> FALSE, has_rowspec |-> FALSE, start_line |-> 0, end_line |-> None]}
    \cup {[given |-> TRUE, has_rowspec |-> h, start_line |-> se[1], end_line |-> se[2]] :
            h \in BOOLEAN, se \in RowSpecs(n)}

\* The call and its load step.  The source yields the rows of src and then
\* ends or raises; the loop breaks once i > limit.
LoadRowsCall(src, raises, limit, ir, it, st) ==
    LET broke == Truthy(limit) /\ Len(src) > limit
        eff == IF broke THEN SubSeq(src, 1, limit + 1) ELSE src
        r0 == MPRWriter_init(disk)
        r1 == load_rows(r0.w, r0.disk, eff)
        r2 == close(r1.w, r1.disk)
    IN IF ~r1.ok \/ (raises /\ ~broke)
       THEN \* the load step failed: the exit of the 'with' block has called
            \* close, then the error reaches load_rows
            /\ w' = r2.w
            /\ disk' = OnLoadError(r2.disk)
            /\ accepted' = IF r1.ok THEN accepted \o eff ELSE accepted
            /\ last' = Ended(IF r1.ok THEN "SourceError" ELSE "IOError", "load")
            /\ UNCHANGED <<pc, largs>>
       ELSE /\ w' = r2.w
            /\ disk' = r2.disk
            /\ accepted' = accepted \o eff
            /\ pc' = "rowspec"
            /\ \E spec \in SourceSpecs(Len(eff)) :
                 largs' = [intuit_rows |-> IntuitRows(ir, spec.given, spec.has_rowspec),
                           intuit_type |-> it, run_stats |-> st,
                           spec |-> spec.given,
                           start_line |-> spec.start_line,
                           end_line |-> spec.end_line]
            /\ last' = Ended("running", "load")

LoadRows ==
    /\ Idle
    /\ ~w.open
    /\ ~Truthy(n_rows(disk))
    /\ UNCHANGED <<loadDone, ovars>>
    /\ \E src \in Batches, raises \in BOOLEAN, limit \in {None, 1},
          ir \in {"auto", "yes", "no"}, it \in BOOLEAN, st \in BOOLEAN :
            LoadRowsCall(src, raises, limit, ir, it, st)

\* run_row_intuiter found a row spec and wrote it back
LoadIntuitRows(s, e) ==
    /\ pc = "rowspec"
    /\ largs.intuit_rows
    /\ disk.hdr.n_rows # 0
    /\ <<s, e>> \in RowSpecs(disk.hdr.n_rows)
    /\ disk' = close(set_row_spec(Reopen(disk), s, e), disk).disk
    /\ pc' = "srcmeta"
    /\ last' = Ended("running", "rowspec")
    /\ UNCHANGED <<w, largs, accepted, loadDone, ovars>>

\* the handler of RowIntuitError in _load_rows: a warning is appended
OnRowIntuitError(wr) == [wr EXCEPT !.meta.warnings = @ + 1]

LoadIntuitRowsWarn ==
    /\ pc = "rowspec"
    /\ largs.intuit_rows
    /\ disk.hdr.n_rows # 0
    /\ disk' = close(OnRowIntuitError(Reopen(disk)), disk).disk
    /\ pc' = "srcmeta"
    /\ last' = Ended("running", "rowspec")
    /\ UNCHANGED <<w, largs, accepted, loadDone, ovars>>

\* an optional step raised an error that _load_rows does not handle: any
\* error of the row intuiter but RowIntuitError, any error of the type
\* intuiter and of the stats run
LoadStepError(step) ==
    /\ pc = step
    /\ \/ step = "rowspec" /\ largs.intuit_rows /\ disk.hdr.n_rows # 0
       \/ step = "types" /\ largs.intuit_type
       \/ step = "stats" /\ largs.run_stats /\ disk.hdr.n_rows # 0
    /\ disk' = OnLoadError(disk)
    /\ pc' = "idle"
    /\ largs' = NoArgs
    /\ last' = Ended("Exception", step)
    /\ UNCHANGED <<w, accepted, loadDone, ovars>>

\* no row intuition, but a SourceSpec: its row spec is written
LoadSpecRows ==
    /\ pc = "rowspec"
    /\ ~largs.intuit_rows
    /\ largs.spec
    /\ disk' = close(set_row_spec(Reopen(disk), largs.start_line, largs.end_line),
                     disk).disk
    /\ pc' = "srcmeta"
    /\ last' = Ended("running", "rowspec")
    /\ UNCHANGED <<w, largs, accepted, loadDone, ovars>>

\* neither: intuit_rows is off and there is no spec, or the file is empty
LoadSkipRows ==
    /\ pc = "rowspec"
    /\ \/ ~largs.intuit_rows /\ ~largs.spec
       \/ largs.intuit_rows /\ disk.hdr.n_rows = 0
    /\ pc' = "srcmeta"
    /\ last' = Ended("running", "rowspec")
    /\ UNCHANGED <<disk, w, largs, accepted, loadDone, ovars>>

\* 'if source.meta': a writer session that sets the column descriptions
LoadSourceMeta(has_meta) ==
    /\ pc = "srcmeta"
    /\ disk' = IF has_meta THEN close(Reopen(disk), disk).disk ELSE disk
    /\ pc' = "types"
    /\ last' = Ended("running", "srcmeta")
    /\ UNCHANGED <<w, largs, accepted, loadDone, ovars>>

\* run_type_intuiter: a reader pass, then a writer session with set_types
LoadTypes ==
    /\ pc = "types"
    /\ disk' = IF largs.intuit_type THEN close(Reopen(disk), disk).disk ELSE disk
    /\ pc' = "stats"
    /\ last' = Ended("running", "types")
    /\ UNCHANGED <<w, largs, accepted, loadDone, ovars>>

\* run_stats: returns at once on an empty file.  On a file with rows it
\* calls Stats(columns, r.n_rows), and Stats.__init__ takes the schema
\* only, so the call raises TypeError before any row is read and before
\* the writer session with set_stats (LoadStepError); the step goes on to
\* finalize only when there is nothing to run
LoadStats ==
    /\ pc = "stats"
    /\ ~(largs.run_stats /\ disk.hdr.n_rows # 0)
    /\ disk' = disk
    /\ pc' = "finalize"
    /\ last' = Ended("running", "stats")
    /\ UNCHANGED <<w, largs, accepted, loadDone, ovars>>

\* the last writer session of _load_rows: data_end_row defaults to n_rows,
\* then finalize and close
default_end_row(wr) ==
    IF Truthy(wr.data_end_row) THEN wr ELSE [wr EXCEPT !.data_end_row = wr.n_rows]

LoadFinalize ==
    /\ pc = "finalize"
    /\ disk' = close(finalize(default_end_row(Reopen(disk))), disk).disk
    /\ pc' = "idle"
    /\ largs' = NoArgs
    /\ loadDone' = TRUE
    /\ last' = Ended("none", "finalize")
    /\ UNCHANGED <<w, accepted, ovars>>

----------------------------------------------------------------------------
(* The meta block: about.create_time, process.finalized and the schema     *)

MaxTime == 2        \* time.time() returns one of 1 .. MaxTime
MaxCols == 2        \* most headers / columns handed to a setter

Times == 1 .. MaxTime

\* SCHEMA_TEMPLATE, reduced to the keys the modelled setters write
SCHEMA_TEMPLATE ==
    <<"pos", "name", "type", "description", "start", "width",
      "type_count", "stat_count">>

NoneCell == "None"      \* Python None as a cell of a schema row

\* META_TEMPLATE with about.create_time and schema = [SCHEMA_TEMPLATE]
META_TEMPLATE_SCHEMA ==
    [finalized |-> FALSE, warnings |-> 0, create_time |-> None,
     schema |-> <<SCHEMA_TEMPLATE>>]

\* RowProxy(s[0]).set_row(row): a cell of the row is addressed by its key
KeyPos(k) == CHOOSE i \in 1 .. Len(SCHEMA_TEMPLATE) : SCHEMA_TEMPLATE[i] = k
RowProxy_get(row, k) == row[KeyPos(k)]
RowProxy_set(row, k, v) == [row EXCEPT ![KeyPos(k)] = v]

\* [None] * n
RECURSIVE Nones(_)
Nones(n) == IF n <= 0 THEN <<>> ELSE Append(Nones(n - 1), NoneCell)

\* _columns, the row appended for a missing schema[i]
ext_row_Short(i) == <<ToString(i), "col" \o ToString(i)>>

ext_row(i) ==
    <<ToString(i), "col" \o ToString(i)>> \o Nones(Len(SCHEMA_TEMPLATE) - 2)

\* _columns consumed up to its k-th row: schema[i] is appended for every
\* i <= k that is missing.  s[1] is schema[0], so schema[i] is s[i + 1].
RECURSIVE Extend(_, _)
Extend(s, k) ==
    IF Len(s) - 1 >= k THEN s ELSE Extend(Append(s, ext_row(Len(s))), k)

\* the number of rows _columns(o, n) generates
ColumnCount(o, n) == Max(Max(n, o.n_cols), Len(o.meta.schema) - 1)

\* row.<key> = vals[i] for the first Len(vals) columns
SetCells(s, key, vals) ==
    [i \in 1 .. Len(s) |->
        IF i >= 2 /\ i - 1 <= Len(vals)
        THEN RowProxy_set(s[i], key, vals[i - 1]) ELSE s[i]]

\* the headers setter (and the columns setter, which differs in the name
\* it gives to an empty header): _columns(self, len(headers)) is walked
\* and headers[i] assigned; when _columns generates more rows than there
\* are headers, headers[i] raises IndexError
set_headers(o, hs) ==
    IF hs = <<>> THEN [o |-> o, err |-> "none"]
    ELSE LET total == ColumnCount(o, Len(hs))
             reached == Min(total, Len(hs) + 1)
         IN [o |-> [o EXCEPT !.meta.schema =
                        SetCells(Extend(@, reached), "name", hs)],
             err |-> IF total > Len(hs) THEN "IndexError" ELSE "none"]

\* self.column(i) for i = 1 .. k, each cell assigned: column() walks
\* _columns(self) up to the row it looks for and raises KeyError when
\* the walk ends without it
set_cells(o, k, key, v) ==
    LET total == ColumnCount(o, 0)
        reached == Min(total, k)
    IN [o |-> [o EXCEPT !.meta.schema =
                   SetCells(Extend(@, reached), key, [i \in 1 .. reached |-> v])],
        err |-> IF k > total THEN "KeyError" ELSE "none"]

\* MPRWriter.set_types: type_count (the intuiter's 'count') of k columns
set_types(o, k) == set_cells(o, k, "type_count", "1")

\* MPRWriter.set_stats: stat_count (the stat set's 'count') of k columns
set_stats(o, k) == set_cells(o, k, "stat_count", "1")

\* MPRWriter.set_source_spec: start and width of the spec's k columns
set_source_spec(o, k) ==
    LET r == set_cells(o, k, "start", "1")
    IN IF r.err # "none" THEN r ELSE set_cells(r.o, k, "width", "1")

\* set_row_spec, the part that edits the schema: set_descriptions on the
\* columns that exist, then the headers setter
set_row_spec_headers(o, hs) ==
    LET total == ColumnCount(o, 0)
        k == Min(total, Len(hs))
        o1 == [o EXCEPT !.meta.schema =
                  SetCells(Extend(@, Min(total, Len(hs) + 1)), "description",
                           SubSeq(hs, 1, k))]
    IN set_headers(o1, hs)

\* MPRWriter.__init__ with the meta block in full: the template is copied
\* for a new file, and create_time is set whenever n_rows is 0
MetaWriter_init(d, now) ==
    LET r == MPRWriter_init(d)
        m0 == IF d.exists THEN d.meta ELSE META_TEMPLATE_SCHEMA
    IN [r EXCEPT !.w.meta = IF r.w.n_rows = 0
                            THEN [m0 EXCEPT !.create_time = now] ELSE m0,
                 !.disk.meta = m0]

NoMetaHist == [before |-> NoFile, touched |-> FALSE, err |-> "none", op |-> "init"]

\* f.writer
MetaOpenWriter(now) ==
    /\ ~mw.open
    /\ LET r == MetaWriter_init(mdisk, now)
       IN /\ mw' = r.w
          /\ mdisk' = r.disk
    /\ mhist' = [before |-> mdisk, touched |-> FALSE, err |-> "none", op |-> "writer"]
    /\ UNCHANGED notT

\* w.insert_row(row)
MetaInsertRow(row) ==
    /\ mw.open
    /\ mw.n_rows < MaxRows
    /\ LET r == insert_row(mw, mdisk, row)
       IN /\ mw' = r.w
          /\ mdisk' = r.disk
          /\ mhist' = [mhist EXCEPT !.touched = TRUE, !.op = "insert_row",
                                    !.err = IF r.ok THEN "none" ELSE "IOError"]
    /\ UNCHANGED notT

MetaFinalize ==
    /\ mw.open
    /\ ~mw.meta.finalized
    /\ mw' = finalize(mw)
    /\ mhist' = [mhist EXCEPT !.touched = TRUE, !.op = "finalize", !.err = "none"]
    /\ UNCHANGED <<mdisk, notT>>

MetaCloseWriter ==
    /\ mw.open
    /\ LET c == close(mw, mdisk)
       IN /\ mw' = c.w
          /\ mdisk' = c.disk
          /\ mhist' = [mhist EXCEPT !.op = "close",
                                    !.err = IF c.ok THEN "none" ELSE "IOError"]
    /\ UNCHANGED notT

\* MPRowsFile.remove
MetaRemove ==
    /\ ~mw.open
    /\ mdisk.exists
    /\ mdisk' = NoFile
    /\ mhist' = NoMetaHist
    /\ UNCHANGED <<mw, notT>>

----------------------------------------------------------------------------
(* The schema of one open writer or reader object                          *)

Headers == {"a"}
HeaderLists == SeqsUpTo(Headers, MaxCols)

\* a writer on a new file
NewSchemaOwner == MetaWriter_init(NoFile, 1).w

SchemaCall(op, r) ==
    /\ sw' = r.o
    /\ slast' = [op |-> op, err |-> r.err]
    /\ UNCHANGED notS

\* rows of width c were written: n_cols = max(n_cols, c)
SchemaWriteRows(c) ==
    SchemaCall("insert_rows",
               [o |-> [sw EXCEPT !.n_cols = Max(@, c)], err |-> "none"])

\* w.headers / r.headers / list(columns): _columns(self) is walked to
\* its end
SchemaGetHeaders ==
    SchemaCall("headers",
               [o |-> [sw EXCEPT !.meta.schema = Extend(@, ColumnCount(sw, 0))],
                err |-> "none"])

SchemaSetHeaders(hs) == SchemaCall("headers=", set_headers(sw, hs))
SchemaSetTypes(k) == SchemaCall("set_types", set_types(sw, k))
SchemaSetStats(k) == SchemaCall("set_stats", set_stats(sw, k))
SchemaSetSourceSpec(k) == SchemaCall("set_source_spec", set_source_spec(sw, k))
SchemaSetRowSpec(hs) == SchemaCall("set_row_spec", set_row_spec_headers(sw, hs))

\* the file is removed and a writer opened on a new one
SchemaNew ==
    /\ sw # NewSchemaOwner
    /\ SchemaCall("writer", [o |-> NewSchemaOwner, err |-> "none"])

----------------------------------------------------------------------------
(* The cells of a row: msgpack with encode_obj and decode_obj              *)

MaxCells == 2       \* longest row handed to the writer

\* a cell value: its Python type and its value as a tuple of integers --
\* date (y, m, d), time (h, m, s, microsecond),
\* datetime (y, m, d, h, m, s, microsecond), str (its bytes, ASCII)
Cell(t, v) == [t |-> t, v |-> v]

SupportedTypes == {"int", "float", "str", "none", "date", "time", "datetime"}

Cells ==
    {Cell("int", <<7>>), Cell("float", <<15>>), Cell("str", <<97>>),
     Cell("none", <<>>), Cell("date", <<2015, 1, 2>>),
     Cell("time", <<1, 2, 3, 0>>), Cell("time", <<1, 2, 3, 5>>),
     Cell("datetime", <<2015, 1, 2, 1, 2, 3, 0>>),
     Cell("datetime", <<2015, 1, 2, 1, 2, 3, 5>>),
     Cell("dict", <<1>>)}

CellRows == SeqsUpTo(Cells, MaxCells)

\* a msgpack object: nil, int, float, raw, or a map with its key set
Packed(t, keys, v) == [t |-> t, keys |-> keys, v |-> v]

\* MPRowsFile.encode_obj, msgpack's default= hook: datetime is tested
\* before date; timetuple()[:6] and (hour, minute, second) carry no
\* microsecond
encode_obj(c) ==
    IF c.t = "datetime"
    THEN Packed("map", {"__datetime__", "value"}, SubSeq(c.v, 1, 6))
    ELSE IF c.t = "date"
    THEN Packed("map", {"__date__", "value"}, c.v)
    ELSE Packed("map", {"__time__", "value"}, SubSeq(c.v, 1, 3))

\* msgpack.packb of one cell: the types msgpack knows are packed as they
\* are (a dict as a map of its own keys), the others go through encode_obj
packb(c) ==
    IF c.t \in {"datetime", "date", "time"} THEN encode_obj(c)
    ELSE IF c.t = "dict" THEN Packed("map", {"k"}, c.v)
    ELSE IF c.t = "none" THEN Packed("nil", {}, <<>>)
    ELSE IF c.t = "str" THEN Packed("raw", {}, c.v)
    ELSE Packed(c.t, {}, c.v)

\* MPRowsFile.decode_obj, the unpacker's object_hook for every map
decode_obj(m) ==
    IF "__datetime__" \in m.keys
    THEN [err |-> "none", cell |-> Cell("datetime", m.v \o <<0>>)]
    ELSE IF "__time__" \in m.keys
    THEN [err |-> "none", cell |-> Cell("time", m.v \o <<0>>)]
    ELSE IF "__date__" \in m.keys
    THEN [err |-> "none", cell |-> Cell("date", m.v)]
    ELSE [err |-> "Exception", cell |-> Cell("none", <<>>)]

unpack(m) ==
    IF m.t = "map" THEN decode_obj(m)
    ELSE IF m.t = "nil" THEN [err |-> "none", cell |-> Cell("none", <<>>)]
    ELSE IF m.t = "raw" THEN [err |-> "none", cell |-> Cell("str", m.v)]
    ELSE [err |-> "none", cell |-> Cell(m.t, m.v)]

\* the unpacker on one frame of one row: the first error ends the read
unpack_row(ms) ==
    LET us == [i \in 1 .. Len(ms) |-> unpack(ms[i])]
        bad == {i \in 1 .. Len(ms) : us[i].err # "none"}
    IN IF bad = {}
       THEN [err |-> "none", rows |-> << [i \in 1 .. Len(ms) |-> us[i].cell] >>]
       ELSE [err |-> us[CHOOSE i \in bad : \A j \in bad : i <= j].err,
             rows |-> <<>>]

NoOut == [err |-> "unread", rows |-> <<>>]

\* w.insert_row(cin): the frame [cin] is packed into the stream
CellWrite ==
    /\ cwire = <<>>
    /\ cin # <<>>
    /\ cwire' = [i \in 1 .. Len(cin) |-> packb(cin[i])]
    /\ UNCHANGED <<cin, cout, notC>>

\* list(r.raw) on the closed file
CellRead ==
    /\ cwire # <<>>
    /\ cout = NoOut
    /\ cout' = unpack_row(cwire)
    /\ UNCHANGED <<cin, cwire, notC>>

----------------------------------------------------------------------------
(* n_rows and n_cols of a writer on a new file                             *)

MaxNarrow == 100    \* most narrow rows in front of the wide row of a batch

Narrow == <<1>>
Wide == <<2, 3>>

\* k rows
Repeat(row, k) == [i \in 1 .. k |-> row]

\* the lists handed to insert_rows: k narrow rows, then one wide row
LongBatches == {Append(Repeat(Narrow, k), Wide) : k \in 0 .. MaxNarrow}

NonePassed == [count |-> 0, width |-> 0]

Passed(p, rs) == [count |-> p.count + Len(rs), width |-> MaxLen(rs, p.width)]

\* w.insert_row(row)
ColsInsertRow(row) ==
    /\ nw.n_rows <= MaxNarrow
    /\ nw' = insert_row(nw, NoFile, row).w
    /\ npassed' = Passed(npassed, <<row>>)
    /\ UNCHANGED notN

\* w.insert_rows(batch)
ColsInsertRows(batch) ==
    /\ nw.n_rows <= MaxNarrow
    /\ nw' = insert_rows(nw, NoFile, batch).w
    /\ npassed' = Passed(npassed, batch)
    /\ UNCHANGED notN

----------------------------------------------------------------------------
(* The reader object and its iterators                                     *)

MaxIters == 2       \* most iterators started on one reader object

\* the meta block follows the row stream; it takes one unit of the file
FileEnd(d) == d.hdr.meta_start + 1

\* no MPRReader object
NoReader ==
    [state |-> "none", closed_by |-> "", cext |-> FALSE, hdr |-> NoHeader,
     fpos |-> 0, ubuf |-> <<>>, ufile |-> TRUE, pos |-> 0,
     meta_cached |-> FALSE, meta_pos |-> [before |-> 0, after |-> 0]]

\* MPRReader.__init__: the header is read, which leaves the handle at
\* data_start; compressor and unpacker are created and read nothing yet.
\* cext: the unpacker is msgpack's C extension, which drops its file
\* object at the first empty read; the pure Python unpacker keeps it.
MPRReader_new(d, cext) ==
    [state |-> "open", closed_by |-> "", cext |-> cext, hdr |-> d.hdr,
     fpos |-> FILE_HEADER_FORMAT_SIZE, ubuf |-> <<>>, ufile |-> TRUE, pos |-> 0,
     meta_cached |-> FALSE, meta_pos |-> [before |-> 0, after |-> 0]]

\* MPRowsFile.read_meta: tell, seek(meta_start), read to the end of the
\* file, seek back.  meta_pos records the position before and after.
read_meta_NoRestore(r, d) ==
    [r EXCEPT !.meta_cached = TRUE, !.fpos = FileEnd(d),
              !.meta_pos = [before |-> r.fpos, after |-> FileEnd(d)]]

read_meta(r, d) ==
    [r EXCEPT !.meta_cached = TRUE,
              !.meta_pos = [before |-> r.fpos, after |-> r.fpos]]

\* MPRReader.meta
reader_meta(r, d) == IF r.meta_cached THEN r ELSE read_meta(r, d)

\* MPRReader.close
reader_close(r, d, by) ==
    IF r.state = "open"
    THEN [reader_meta(r, d) EXCEPT !.state = "closed", !.closed_by = by]
    ELSE r

\* GzipFile._read, the test in front of a new member
at_end_of_data_Never(p, end) == FALSE

at_end_of_data(p, end) == Truthy(end) /\ p >= end

\* GzipFile.read for the unpacker, which asks for more than the files of
\* this model hold: members are read until _read raises EOFError.  The
\* row stream is one member that starts at data_start; bytes that do not
\* start a member are "Not a gzipped file".
GzipFile_read(r, d) ==
    LET p == r.fpos
        end == r.hdr.meta_start
        member == SubSeq(d.stream, 1,
                         Min(Len(d.stream), d.hdr.meta_start - FILE_HEADER_FORMAT_SIZE))
    IN IF r.state # "open"
       THEN [frames |-> <<>>, fpos |-> p, err |-> "ValueError"]
       ELSE IF at_end_of_data(p, end) \/ p >= FileEnd(d)
       THEN [frames |-> <<>>, fpos |-> p, err |-> "none"]
       ELSE IF p = FILE_HEADER_FORMAT_SIZE
       THEN IF at_end_of_data(d.hdr.meta_start, end)
            THEN [frames |-> member, fpos |-> d.hdr.meta_start, err |-> "none"]
            ELSE [frames |-> <<>>, fpos |-> d.hdr.meta_start, err |-> "IOError"]
       ELSE [frames |-> <<>>, fpos |-> p, err |-> "IOError"]

\* next(self.unpacker): a frame from the buffer, else one read of the
\* compressor; res is "frame", "stop" (StopIteration) or the error
unpacker_next(r, d) ==
    IF r.ubuf # <<>>
    THEN [r |-> [r EXCEPT !.ubuf = Tail(@)], frame |-> Head(r.ubuf), res |-> "frame"]
    ELSE IF ~r.ufile
    THEN [r |-> r, frame |-> <<>>, res |-> "stop"]
    ELSE LET g == GzipFile_read(r, d)
         IN IF g.err # "none"
            THEN [r |-> [r EXCEPT !.fpos = g.fpos], frame |-> <<>>, res |-> g.err]
            ELSE IF g.frames = <<>>
            THEN [r |-> [r EXCEPT !.fpos = g.fpos, !.ufile = ~r.cext],
                  frame |-> <<>>, res |-> "stop"]
            ELSE [r |-> [r EXCEPT !.fpos = g.fpos, !.ubuf = Tail(g.frames)],
                  frame |-> Head(g.frames), res |-> "frame"]

\* no iterator
NoIter ==
    [kind |-> "none", state |-> "done", cur |-> <<>>, out |-> <<>>,
     err |-> "none", n |-> 0, metar |-> FALSE, cut |-> FALSE, owe |-> 0]

\* the generator ends: the 'finally' of raw closes the reader
finish(r, g, d, err) ==
    [r |-> IF g.kind = "raw" THEN reader_close(r, d, "raw") ELSE r,
     g |-> [g EXCEPT !.state = "done", !.err = err, !.cur = <<>>]]

\* the generator body from the row loop on, up to the next yield or to
\* its end: raw yields every row, rows and __iter__ yield the rows with
\* data_start_row <= self.pos <= data_end_row; self.pos += 1 follows the
\* yield, so it is owed until the generator is resumed
RECURSIVE resume(_, _, _)
resume(r, g, d) ==
    IF g.cur # <<>>
    THEN LET g1 == [g EXCEPT !.cur = Tail(@)]
         IN IF \/ g.kind = "raw"
               \/ r.hdr.data_start_row <= r.pos /\ r.pos <= r.hdr.data_end_row
            THEN [r |-> r, g |-> [g1 EXCEPT !.out = Append(@, Head(g.cur)), !.owe = 1]]
            ELSE resume([r EXCEPT !.pos = @ + 1], g1, d)
    ELSE LET u == unpacker_next(r, d)
         IN IF u.res = "frame"
            THEN resume(u.r, [g EXCEPT !.cur = u.frame], d)
            ELSE finish(u.r, g, d, IF u.res = "stop" THEN "none" ELSE u.res)

\* the first next() of a generator: self._fh.seek(self.data_start), and in
\* rows and __iter__ self.headers, which reads the meta unless it is
\* cached; on a closed reader self._fh is None
start(r, g, d) ==
    IF r.state # "open"
    THEN [r |-> r, g |-> [g EXCEPT !.state = "done", !.err = "AttributeError"]]
    ELSE LET r1 == [r EXCEPT !.fpos = FILE_HEADER_FORMAT_SIZE]
             r2 == IF g.kind = "raw" THEN r1 ELSE reader_meta(r1, d)
         IN resume(r2, [g EXCEPT !.state = "running",
                                 !.metar = g.kind # "raw" /\ ~r.meta_cached], d)

\* f.reader
ReaderOpen(cext) ==
    /\ rd.state # "open"
    /\ disk.exists
    /\ rd' = MPRReader_new(disk, cext)
    /\ iter' = NoIter
    /\ UNCHANGED <<mvars, notR>>

\* r.raw, r.rows or iter(r): a generator object is made; nothing of its
\* body runs yet.  An earlier generator is given up: when it is dropped
\* while suspended, its 'finally' runs.
IterNew(kind, drop) ==
    /\ rd.state # "none"
    /\ iter.n < MaxIters
    /\ rd' = IF iter.kind = "raw" /\ iter.state = "running" /\ drop
             THEN reader_close(rd, disk, "raw") ELSE rd
    /\ iter' = [NoIter EXCEPT !.kind = kind, !.state = "created", !.n = iter.n + 1,
                              !.cut = rd.closed_by = "client"]
    /\ UNCHANGED <<mvars, notR>>

\* next(it)
IterNext ==
    /\ iter.state \in {"created", "running"}
    /\ LET x == IF iter.state = "created" THEN start(rd, iter, disk)
                ELSE resume([rd EXCEPT !.pos = @ + iter.owe],
                            [iter EXCEPT !.owe = 0], disk)
       IN /\ rd' = x.r
          /\ iter' = x.g
    /\ UNCHANGED <<mvars, notR>>

\* r.meta, r.headers or list(r.columns) by the client
ReaderMeta ==
    /\ rd.state # "none"
    /\ rd' = reader_meta(rd, disk)
    /\ iter' = IF iter.state = "running" /\ ~rd.meta_cached
               THEN [iter EXCEPT !.metar = TRUE] ELSE iter
    /\ UNCHANGED <<mvars, notR>>

\* r.close(), also the exit of 'with f.reader as r'
ReaderClose ==
    /\ rd.state = "open"
    /\ rd' = reader_close(rd, disk, "client")
    /\ iter' = IF iter.state \in {"created", "running"}
               THEN [iter EXCEPT !.cut = TRUE] ELSE iter
    /\ UNCHANGED <<mvars, notR>>

\* the closed files the readers are opened on: one or two insert_rows
\* calls and a row spec on a new file
ReaderFile(b1, b2, se) ==
    LET r0 == MPRWriter_init(NoFile)
        r1 == insert_rows(r0.w, r0.disk, b1)
        r2 == insert_rows(r1.w, r1.disk, b2)
    IN close(set_row_spec(r2.w, se[1], se[2]), r2.disk).disk

ReaderFiles ==
    UNION {{ReaderFile(b1, b2, se) : se \in RowSpecs(Len(b1) + Len(b2))} :
             <<b1, b2>> \in {bb \in Batches \X Batches :
                               Len(bb[1]) + Len(bb[2]) <= MaxRows}}

\* what a new reader's iterator of a kind yields
Expected(kind, d) == IF kind = "raw" THEN raw(d) ELSE rows(d)

----------------------------------------------------------------------------
(* The bytes of the meta block: write_meta and read_meta                   *)

MaxName == 2        \* longest column name a writer session sets
MaxSessions == 3    \* most writer sessions on one file

\* the part of the meta that varies here is schema[1].name, a string of
\* the characters 'a' and 'b'; a new writer holds the template, without it
Names == SeqsUpTo({97, 98}, MaxName)

RECURSIVE ByteSum(_)
ByteSum(bs) == IF bs = <<>> THEN 0 ELSE (Head(bs) + ByteSum(Tail(bs))) % 256

\* msgpack.packb of the meta: the string with its length in front
packb_meta(m) == <<Len(m)>> \o m

\* msgpack.unpackb: the length, then exactly that many bytes
unpackb_meta(bs) ==
    IF bs # <<>> /\ Len(bs) = bs[1] + 1
    THEN [ok |-> TRUE, meta |-> Tail(bs)]
    ELSE [ok |-> FALSE, meta |-> <<>>]

ZLIB_HEADER == 120      \* 0x78, the first byte of a zlib stream

\* zlib.compress: a stream that carries its own end and a checksum
compress(bs) == <<ZLIB_HEADER, Len(bs)>> \o bs \o <<ByteSum(bs)>>

\* zlib.decompress: decodes the first stream of the data and ignores what
\* follows its end; a stream that is cut short is an error
decompress(data) ==
    IF Len(data) >= 3 /\ data[1] = ZLIB_HEADER /\ Len(data) >= data[2] + 3
    THEN LET body == SubSeq(data, 3, data[2] + 2)
         IN [ok |-> data[data[2] + 3] = ByteSum(body), bytes |-> body]
    ELSE [ok |-> FALSE, bytes |-> <<>>]

\* fh.seek(meta_start); fh.write(fhb): the bytes are written over what is
\* there, and what lies behind them stays
Overwrite(old, new) ==
    new \o SubSeq(old, Len(new) + 1, Len(old))

\* MPRowsFile.write_meta on the bytes from meta_start on
write_meta(tail, m) == Overwrite(tail, compress(packb_meta(m)))

\* MPRowsFile.read_meta on the bytes from meta_start on: no data is {}
read_meta_bytes(tail) ==
    IF tail = <<>> THEN [ok |-> TRUE, meta |-> <<>>]
    ELSE LET z == decompress(tail)
         IN IF z.ok THEN unpackb_meta(z.bytes) ELSE [ok |-> FALSE, meta |-> <<>>]

NoBlockFile ==
    [exists |-> FALSE, open |-> FALSE, tail |-> <<>>, meta |-> <<>>,
     held |-> <<>>, sessions |-> 0]

\* f.writer on the path: 'wb' empties a new file, 'r+b' keeps the bytes of
\* an existing one and the writer reads its meta from them
BlockOpenWriter ==
    /\ ~bf.open
    /\ bf.sessions < MaxSessions
    /\ bf' = IF bf.exists
             THEN [bf EXCEPT !.open = TRUE, !.sessions = @ + 1,
                             !.meta = read_meta_bytes(bf.tail).meta]
             ELSE [bf EXCEPT !.exists = TRUE, !.open = TRUE, !.sessions = @ + 1,
                             !.tail = <<>>, !.meta = <<>>]
    /\ UNCHANGED notB

\* w.headers = [name]
BlockSetHeaders(name) ==
    /\ bf.open
    /\ bf' = [bf EXCEPT !.meta = name]
    /\ UNCHANGED notB

\* w.close(): the handle of a writer without new rows stands at meta_start
BlockClose ==
    /\ bf.open
    /\ bf' = [bf EXCEPT !.open = FALSE, !.tail = write_meta(bf.tail, bf.meta),
                        !.held = bf.meta]
    /\ UNCHANGED notB

----------------------------------------------------------------------------
(* MPRWriter.header_mangler                                                *)

MaxStr == 3         \* longest string handed to the mangler

\* 'a', 'A', '1', '_', ' ' and '-': a letter of each case, a digit, the
\* underscore, white space and punctuation
Alphabet == {97, 65, 49, 95, 32, 45}

Strings == SeqsUpTo(Alphabet, MaxStr)

IsSpace(c) == c = 32
IsWord(c) == c \in (97 .. 122) \cup (65 .. 90) \cup (48 .. 57) \cup {95}
Lower(c) == IF c \in 65 .. 90 THEN c + 32 ELSE c

RECURSIVE lstrip(_)
lstrip(x) == IF x # <<>> /\ IsSpace(Head(x)) THEN lstrip(Tail(x)) ELSE x

RECURSIVE rstrip(_, _)
rstrip(x, c) ==
    IF x # <<>> /\ x[Len(x)] = c THEN rstrip(SubSeq(x, 1, Len(x) - 1), c) ELSE x

\* name.strip()
strip(x) == rstrip(lstrip(x), 32)

\* re.sub('[^\w_]', '_', x)
NonWordToUnderscore(x) == [i \in 1 .. Len(x) |-> IF IsWord(x[i]) THEN x[i] ELSE 95]

\* x.lower()
lower(x) == [i \in 1 .. Len(x) |-> Lower(x[i])]

\* re.sub('_+', '_', x)
RECURSIVE Collapse(_)
Collapse(x) ==
    IF Len(x) < 2 THEN x
    ELSE IF x[1] = 95 /\ x[2] = 95 THEN Collapse(Tail(x))
    ELSE <<Head(x)>> \o Collapse(Tail(x))

\* lambda name: re.sub('_+', '_', re.sub('[^\w_]', '_', name.strip()).lower()).rstrip('_')
header_mangler(name) ==
    rstrip(Collapse(lower(NonWordToUnderscore(strip(name)))), 95)

NoMangle == [in |-> <<>>, out |-> <<>>, again |-> <<>>, step |-> 0]

\* the mangler is applied to a header
MangleOnce ==
    /\ mg.step = 0
    /\ mg' = [mg EXCEPT !.out = header_mangler(mg.in), !.step = 1]
    /\ UNCHANGED notG

\* the mangler is applied to what it returned
MangleAgain ==
    /\ mg.step = 1
    /\ mg' = [mg EXCEPT !.again = header_mangler(mg.out), !.step = 2]
    /\ UNCHANGED notG

----------------------------------------------------------------------------
(* The SQL adapter: Table and Cursor of med/sqlite.py                      *)

CursorIds == {1, 2}         \* the cursors opened on the one virtual table
NextLimit == MaxRows + 2    \* most Next calls on one cursor

NoneRow == <<>>     \* _current_row = None; the rows of the files are not empty

\* reader objects: 0 is the one Source.Create made, c the one cursor c made
ReaderIds == {0} \cup CursorIds

NoCursor ==
    [state |-> "none", rid |-> None, g |-> NoIter, current_row |-> NoneRow,
     row_id |-> 0, err |-> "none", nexts |-> 0]

\* no table is mounted
Unmounted == [cached |-> None, readers |-> <<>>, users |-> <<>>, cur |-> <<>>]

\* Source.Create: MPRowsFile(mpr_url).reader.columns leaves a reader that
\* has read its meta open and cached in the MPRowsFile of the Table
Mounted(d, cext) ==
    [cached |-> 0,
     readers |-> [i \in ReaderIds |->
                    IF i = 0 THEN reader_meta(MPRReader_new(d, cext), d) ELSE NoReader],
     users |-> [i \in ReaderIds |-> 0],
     cur |-> [c \in CursorIds |-> NoCursor]]

\* what next(self._rows_iter) raises when the generator ended
Raises(g) == IF g.err = "none" THEN "StopIteration" ELSE g.err

\* Cursor.__init__: table.mprows.reader is the cached reader or a new one;
\* iter(reader.rows), the first next(), _row_id = 1
Cursor_init(cs, c, d, cext) ==
    LET rid == IF cs.cached # None THEN cs.cached ELSE c
        r0 == IF cs.cached # None THEN cs.readers[rid] ELSE MPRReader_new(d, cext)
        x == start(r0, [NoIter EXCEPT !.kind = "rows", !.state = "created", !.n = 1], d)
        cu == IF x.g.state = "done"
              THEN [NoCursor EXCEPT !.state = "failed", !.rid = rid, !.g = x.g,
                                    !.err = Raises(x.g)]
              ELSE [NoCursor EXCEPT !.state = "open", !.rid = rid, !.g = x.g,
                                    !.current_row = x.g.out[Len(x.g.out)],
                                    !.row_id = 1]
    IN [cs EXCEPT !.cached = rid, !.readers[rid] = x.r, !.users[rid] = @ + 1,
                  !.cur[c] = cu]

\* Cursor.Next: StopIteration empties the current row and keeps _row_id;
\* any other error leaves the cursor as it is
Cursor_Next_CountEof(cs, c, d) ==
    LET cu == cs.cur[c]
        r == cs.readers[cu.rid]
        x == IF cu.g.state = "done"
             THEN [r |-> r, g |-> [cu.g EXCEPT !.err = "none"]]
             ELSE resume([r EXCEPT !.pos = @ + cu.g.owe], [cu.g EXCEPT !.owe = 0], d)
        cu1 == [cu EXCEPT !.g = x.g, !.nexts = @ + 1, !.row_id = @ + 1]
        cu2 == IF x.g.state # "done"
               THEN [cu1 EXCEPT !.current_row = x.g.out[Len(x.g.out)]]
               ELSE IF x.g.err = "none"
               THEN [cu1 EXCEPT !.current_row = NoneRow]
               ELSE [cu1 EXCEPT !.err = x.g.err]
    IN [cs EXCEPT !.readers[cu.rid] = x.r, !.cur[c] = cu2]

Cursor_Next(cs, c, d) ==
    LET cu == cs.cur[c]
        r == cs.readers[cu.rid]
        x == IF cu.g.state = "done"
             THEN [r |-> r, g |-> [cu.g EXCEPT !.err = "none"]]
             ELSE resume([r EXCEPT !.pos = @ + cu.g.owe], [cu.g EXCEPT !.owe = 0], d)
        cu1 == [cu EXCEPT !.g = x.g, !.nexts = @ + 1]
        cu2 == IF x.g.state # "done"
               THEN [cu1 EXCEPT !.current_row = x.g.out[Len(x.g.out)],
                                !.row_id = @ + 1]
               ELSE IF x.g.err = "none"
               THEN [cu1 EXCEPT !.current_row = NoneRow]
               ELSE [cu1 EXCEPT !.err = x.g.err]
    IN [cs EXCEPT !.readers[cu.rid] = x.r, !.cur[c] = cu2]

\* Cursor.Close: self._reader.close(), which also empties the reader cache
\* of the MPRowsFile when the reader was open
Cursor_Close(cs, c, d) ==
    LET cu == cs.cur[c]
        r == cs.readers[cu.rid]
    IN [cs EXCEPT !.readers[cu.rid] = reader_close(r, d, "client"),
                  !.cached = IF r.state = "open" THEN None ELSE @,
                  !.cur[c].state = "closed"]

\* Cursor.Eof, Cursor.Rowid, Cursor.Column (the cells of this model are
\* integers, which Column returns as they are)
Eof(cu) == cu.current_row = NoneRow
Rowid(cu) == cu.row_id
Column(cu, col) == cu.current_row[col + 1]

\* Table.Open
CursorOpen(c, cext) ==
    /\ curs.cur[c].state = "none"
    /\ curs' = Cursor_init(curs, c, disk, cext)
    /\ UNCHANGED <<base, bf, mg, db, sq, stat>>

CursorNext(c) ==
    /\ curs.cur[c].state = "open"
    /\ curs.cur[c].nexts < NextLimit
    /\ curs' = Cursor_Next(curs, c, disk)
    /\ UNCHANGED <<base, bf, mg, db, sq, stat>>

CursorClose(c) ==
    /\ curs.cur[c].state = "open"
    /\ curs' = Cursor_Close(curs, c, disk)
    /\ UNCHANGED <<base, bf, mg, db, sq, stat>>

----------------------------------------------------------------------------
(* The SQL adapter: install_mpr_module, _relation_exists, add_partition    *)

MaxCalls == 3       \* most add_partition calls on one connection

TableNames == {"t1", "t2"}

\* the MPRowsFile objects handed to add_partition: whether the file exists
\* and whether Source.Create can convert its column types
Mprs == [exists : BOOLEAN, convertible : BOOLEAN]

NoCall ==
    [table |-> "", mpr |-> [exists |-> FALSE, convertible |-> FALSE],
     err |-> "none", existed |-> FALSE, created |-> 0]

\* what is remembered about the add_partition calls with one pair of
\* arguments: how many there were, what the first one did, and how many of
\* them executed CREATE VIRTUAL TABLE
NoCalls == [calls |-> 0, first |-> "", creates |-> 0]

\* a new apsw connection
NewConnection ==
    [module |-> FALSE, relations |-> {}, creates |-> 0, ncalls |-> 0,
     last |-> NoCall, hist |-> <<>>]

\* the calls remembered for a pair of arguments
Hist(c, a) == IF a \in DOMAIN c.hist THEN c.hist[a] ELSE NoCalls

\* install_mpr_module: createmodule under MODULE_NAME; a MisuseError is
\* swallowed
install_mpr_module(c) == [c EXCEPT !.module = TRUE]

\* _relation_exists: a row of sqlite_master of type table or view with
\* this name
relation_exists_Never(c, relation) == FALSE

relation_exists(c, relation) == relation \in c.relations

\* cursor.execute('CREATE VIRTUAL TABLE ...'): SQLite calls Source.Create,
\* and the table exists afterwards unless Create raised
create_virtual_table(c, table, mpr) ==
    IF mpr.convertible
    THEN [c |-> [c EXCEPT !.creates = @ + 1, !.relations = @ \cup {table}],
          err |-> "none"]
    ELSE [c |-> [c EXCEPT !.creates = @ + 1], err |-> "Exception"]

\* add_partition(connection, mprows, table)
add_partition(c, mpr, table) ==
    LET c1 == install_mpr_module(c)
    IN IF relation_exists(c1, table) THEN [c |-> c1, err |-> "none"]
       ELSE IF ~mpr.exists THEN [c |-> c1, err |-> "VirtualTableError"]
       ELSE create_virtual_table(c1, table, mpr)

InstallModule ==
    /\ db' = [install_mpr_module(db) EXCEPT
                !.last = [NoCall EXCEPT !.table = "install"]]
    /\ UNCHANGED notD

\* the client creates a view of this name on the connection
CreateView(name) ==
    /\ name \notin db.relations
    /\ db' = [db EXCEPT !.relations = @ \cup {name},
                        !.last = [NoCall EXCEPT !.table = "view"]]
    /\ UNCHANGED notD

AddPartition(mpr, table) ==
    /\ db.ncalls < MaxCalls
    /\ LET r == add_partition(db, mpr, table)
           h == Hist(db, <<table, mpr>>)
           h1 == [calls |-> h.calls + 1,
                  first |-> IF h.calls > 0 THEN h.first
                            ELSE IF r.err # "none" THEN r.err
                            ELSE IF r.c.creates > db.creates THEN "created"
                            ELSE "skipped",
                  creates |-> h.creates + (r.c.creates - db.creates)]
           did == r.c.creates - db.creates
       IN db' = [r.c EXCEPT
                   !.ncalls = @ + 1,
                   !.last = [table |-> table, mpr |-> mpr, err |-> r.err,
                             existed |-> table \in db.relations,
                             created |-> did],
                   !.hist = [a \in DOMAIN db.hist \cup {<<table, mpr>>} |->
                               IF a = <<table, mpr>> THEN h1 ELSE db.hist[a]]]
    /\ UNCHANGED notD

----------------------------------------------------------------------------
(* The SQL adapter: Source.Create and TYPE_MAP                             *)

\* the names of the column types in a schema: str is binary_type.__name__
\* and unicode is text_type.__name__
TypeNames == {"int", "float", "str", "unicode", "date", "datetime", "time", "unknown"}

\* TYPE_MAP.get(type): None for a name that is not a key
TYPE_MAP(t) ==
    CASE t = "int" -> "INTEGER"
      [] t = "float" -> "REAL"
      [] t = "str" -> "TEXT"
      [] t = "unicode" -> "TEXT"
      [] t = "date" -> "DATE"
      [] t = "datetime" -> "TIMESTAMP WITHOUT TIME ZONE"
      [] OTHER -> NoneCell

Perms(n) == {f \in [1 .. n -> 1 .. n] : \A i, j \in 1 .. n : f[i] = f[j] => i = j}

\* what reader.columns yields: columns with different pos, in any order
ColumnLists ==
    UNION {{[i \in 1 .. n |-> [pos |-> f[i], name |-> "col" \o ToString(f[i]),
                               type |-> ts[i]]] :
              f \in Perms(n), ts \in [1 .. n -> TypeNames]} : n \in 1 .. MaxCols}

\* sorted(columns, key=lambda x: x['pos'])
SortedByPos(cols) ==
    [i \in 1 .. Len(cols) |->
        cols[CHOOSE j \in 1 .. Len(cols) :
               Cardinality({k \in 1 .. Len(cols) : cols[k].pos < cols[j].pos}) = i - 1]]

\* Source.Create: one '"name" TYPE' per column in pos order; the first
\* column whose type has no entry in TYPE_MAP raises Exception
Source_Create(cols) ==
    LET sorted == SortedByPos(cols)
    IN IF \E i \in 1 .. Len(sorted) : TYPE_MAP(sorted[i].type) = NoneCell
       THEN [err |-> "Exception", columns |-> <<>>]
       ELSE [err |-> "none",
             columns |-> [i \in 1 .. Len(sorted) |->
                            <<sorted[i].name, TYPE_MAP(sorted[i].type)>>]]

NoCreate == [in |-> <<>>, done |-> FALSE, out |-> [err |-> "none", columns |-> <<>>]]

\* CREATE VIRTUAL TABLE ... using mod_partition(url)
SourceCreate ==
    /\ ~sq.done
    /\ sq' = [sq EXCEPT !.done = TRUE, !.out = Source_Create(sq.in)]
    /\ UNCHANGED notQ

\* the table is dropped and may be created again
SourceDestroy ==
    /\ sq.done
    /\ sq' = [sq EXCEPT !.done = FALSE, !.out = NoCreate.out]
    /\ UNCHANGED notQ

----------------------------------------------------------------------------
(* StatSet.add of stats.py, for a numeric column                           *)

MaxAdds == 4        \* most values added to the StatSet

\* the values of the column: multiples of 8, so that mean, standard
\* deviation and bin width of the primer are whole numbers
StatValues == {0, 8, 16, 24}

\* self.bin_primer_count: 5000 in StatSet.__init__, the model collects two
\* values and makes the bins at the third
bin_primer_count == 3
num_bins == 16

\* self.bin_primer_count / 100: 50 in StatSet.add, scaled with the primer
\* so that a primer of one repeated value falls below it
ordinal_below == 2

\* the levels of measurement a column starts with: NOMINAL, ORDINAL, INTERVAL
Loms == {"n", "o", "i"}

RECURSIVE SumSeq(_)
SumSeq(q) == IF q = <<>> THEN 0 ELSE Head(q) + SumSeq(Tail(q))

\* livestats: mean and variance of the values added so far
Mean(vals) == SumSeq(vals) \div Len(vals)
Variance(vals) ==
    SumSeq([i \in 1 .. Len(vals) |-> (vals[i] - Mean(vals)) * (vals[i] - Mean(vals))])
        \div Len(vals)

\* math.sqrt, for the squares that occur
Sqrt(x) == CHOOSE r \in 0 .. x : r * r = x

\* no StatSet was made yet
NoStatSet == [n |-> 0, lom |-> "", bins |-> <<>>]

\* StatSet.__init__ for typ = int
NewStatSet ==
    [n |-> 0, lom |-> "i", counts |-> <<>>, stats |-> <<>>,
     bins |-> [i \in 1 .. num_bins |-> 0],
     bin_min |-> None, bin_max |-> None, bin_width |-> None,
     err |-> "none", added |-> <<>>, idx |-> {}]

\* StatSet.__init__ for a type of the given level of measurement
StatSet_init(lom) == [NewStatSet EXCEPT !.lom = lom]

\* the distinct values of a sequence
Distinct(q) == {q[i] : i \in 1 .. Len(q)}

\* StatSet.nuniques: len(list(self.counts.items()))
nuniques(o) == Cardinality(Distinct(o.counts))

is_numeric(o) == o.lom = "i"

\* StatSet.mean, stddev, min, max, skewness, kurtosis: None unless numeric
reports_numeric(o) == is_numeric(o)

\* dict(self.counts.most_common(100)), as the set of its keys
most_common(o, k) ==
    LET keys == Distinct(o.counts)
        count(v) == Cardinality({i \in 1 .. Len(o.counts) : o.counts[i] = v})
    IN CHOOSE S \in SUBSET keys :
           /\ Cardinality(S) = IF Cardinality(keys) < k THEN Cardinality(keys) ELSE k
           /\ \A a \in S, b \in keys \ S : count(a) >= count(b)

primer_is_ordinal_Loose(o) == nuniques(o) <= ordinal_below

\* if self.nuniques < (self.bin_primer_count/100)
primer_is_ordinal(o) == nuniques(o) < ordinal_below

\* self.bins[bin_] += count; bins[0] of the code is bins[1] here
AddToBin(o, bin_, count) ==
    IF bin_ \in 0 .. num_bins - 1
    THEN [o EXCEPT !.bins[bin_ + 1] = @ + count, !.idx = @ \cup {bin_}]
    ELSE [o EXCEPT !.err = "IndexError", !.idx = @ \cup {bin_}]

\* the loop over self.counts at the end of the primer
RECURSIVE Reclassify(_, _)
Reclassify(o, vals) ==
    IF vals = <<>> \/ o.err # "none" THEN o
    ELSE LET v == Head(vals)
         IN IF v >= o.bin_min /\ v <= o.bin_max
            THEN Reclassify(AddToBin(o, (v - o.bin_min) \div o.bin_width, 1), Tail(vals))
            ELSE Reclassify(o, Tail(vals))

\* StatSet.add(v); self.counts is kept as the sequence of the values
\* counted, self.stats as the sequence of the values livestats was given
StatSet_add(o, v) ==
    LET o1 == [o EXCEPT !.n = @ + 1, !.err = "none", !.added = Append(@, v)]
    IN IF o1.lom \in {"n", "o"} THEN [o1 EXCEPT !.counts = Append(@, v)]
       ELSE IF o1.n < bin_primer_count
       THEN [o1 EXCEPT !.counts = Append(@, v), !.stats = Append(@, v)]
       ELSE IF o1.n = bin_primer_count
       THEN IF primer_is_ordinal(o1)
            THEN [o1 EXCEPT !.lom = "o", !.stats = <<v>>, !.counts = <<>>]
            ELSE LET lo == Mean(o1.stats) - Sqrt(Variance(o1.stats)) * 2
                     hi == Mean(o1.stats) + Sqrt(Variance(o1.stats)) * 2
                     o2 == [o1 EXCEPT !.bin_min = lo, !.bin_max = hi,
                                      !.bin_width = (hi - lo) \div num_bins]
                     o3 == Reclassify(o2, o2.counts)
                 IN IF o3.err # "none" THEN o3
                    ELSE [o3 EXCEPT !.counts = <<>>, !.stats = Append(@, v)]
       ELSE IF v >= o1.bin_min /\ v <= o1.bin_max
       THEN LET o2 == AddToBin(o1, (v - o1.bin_min) \div o1.bin_width, 1)
            IN IF o2.err # "none" THEN o2 ELSE [o2 EXCEPT !.stats = Append(@, v)]
       ELSE [o1 EXCEPT !.stats = Append(@, v)]

\* stats.add(v)
StatAdd(v) ==
    /\ stat.n < MaxAdds
    /\ stat' = StatSet_add(stat, v)
    /\ UNCHANGED notA

\* a new StatSet for a column of another type
StatNew(lom) ==
    /\ stat.n > 0
    /\ stat' = StatSet_init(lom)
    /\ UNCHANGED notA

----------------------------------------------------------------------------
(* Stats.run of stats.py: which rows of the source are processed           *)

MaxSource == 12     \* most rows the source of a run yields

SAMPLE_ROWS == 10000

\* the values of sample_from: None, and totals around the two thresholds
SampleFroms == {None, 0, 10000, 10001, 20000, 49999, 50000, 59999, 60000}

\* no run was started
NoRun == [state |-> "none", sample_from |-> None, n |-> 0, i |-> 0,
          processed |-> {}]

\* average_skip = sample_from / SAMPLE_ROWS, the integer division of the
\* Python 2 the package is declared for
average_skip(sample_from) == sample_from \div SAMPLE_ROWS

Stats_run_takes_All(sample_from, i) == TRUE

\* whether the loop of Stats.run hands row i to process_row
Stats_run_takes(sample_from, i) ==
    IF sample_from = None THEN TRUE
    ELSE IF average_skip(sample_from) > 4
    THEN i % average_skip(sample_from) = 0
    ELSE TRUE

\* Stats(schema).run(source, sample_from) is called on a source of n rows
RunStart(sample_from, n) ==
    /\ sr.state # "running"
    /\ sr' = [state |-> "running", sample_from |-> sample_from, n |-> n,
              i |-> 0, processed |-> {}]
    /\ UNCHANGED notSr

\* one turn of the loop over the source
RunRow ==
    /\ sr.state = "running"
    /\ sr.i < sr.n
    /\ sr' = [sr EXCEPT !.i = @ + 1,
                        !.processed = IF Stats_run_takes(sr.sample_from, sr.i)
                                      THEN @ \cup {sr.i} ELSE @]
    /\ UNCHANGED notSr

\* the source is exhausted: return self
RunReturn ==
    /\ sr.state = "running"
    /\ sr.i = sr.n
    /\ sr' = [sr EXCEPT !.state = "returned"]
    /\ UNCHANGED notSr

----------------------------------------------------------------------------
(* download of download.py: the cache entry and the lock file              *)

MaxDownloads == 2   \* most download calls one process makes

Procs == {1, 2}

\* a process that is not inside download
NoDownloadCall == [at |-> "idle", clean |-> FALSE, fetched |-> FALSE,
                   download_time |-> FALSE, saw |-> "none", calls |-> 0]

\* the cache holds nothing for the URL, the lock file is free
NoDownload == [file |-> "absent", lock |-> 0, fetches |-> 0,
               cleaned |-> FALSE, interrupted |-> FALSE,
               proc |-> [p \in Procs |-> NoDownloadCall]]

\* cache_fs.exists(cache_path): true from the moment open(.., 'wb') made it
cache_exists(d) == d.file # "absent"

\* download(url, cache_fs, clean=clean) is called:
\* if clean and cache_fs.exists(cache_path): cache_fs.remove(cache_path)
DownloadCall(p, clean) ==
    /\ dl.proc[p].at \in {"idle", "returned", "raised"}
    /\ dl.proc[p].calls < MaxDownloads
    /\ dl' = [dl EXCEPT !.proc[p] = [NoDownloadCall EXCEPT !.at = "called",
                                        !.clean = clean,
                                        !.calls = dl.proc[p].calls + 1],
                        !.file = IF clean /\ cache_exists(dl) THEN "absent" ELSE @,
                        !.cleaned = @ \/ clean]
    /\ UNCHANGED notDl

\* if not cache_fs.exists(cache_path): ... else return cache_path, False
DownloadCheck(p) ==
    /\ dl.proc[p].at = "called"
    /\ dl' = [dl EXCEPT !.proc[p].at = IF cache_exists(dl) THEN "returned"
                                       ELSE "missing",
                        !.proc[p].saw = IF cache_exists(dl) THEN dl.file ELSE "none"]
    /\ UNCHANGED notDl

\* with FileLock(lock_file): blocks until the lock file is free
DownloadLock(p) ==
    /\ dl.proc[p].at = "missing"
    /\ dl.lock = 0
    /\ dl' = [dl EXCEPT !.lock = p, !.proc[p].at = "locked"]
    /\ UNCHANGED notDl

\* requests.get(url, stream=True); cache_fs.open(cache_path, 'wb')
DownloadOpen(p) ==
    /\ dl.proc[p].at = "locked"
    /\ dl' = [dl EXCEPT !.file = "partial", !.fetches = @ + 1,
                        !.proc[p].at = "writing", !.proc[p].fetched = TRUE]
    /\ UNCHANGED notDl

\* copy_file_or_flo(r.raw, f) ends and the file is closed;
\* download_time = time.time(); the lock is released; return
DownloadWrite(p) ==
    /\ dl.proc[p].at = "writing"
    /\ dl' = [dl EXCEPT !.file = "complete", !.lock = 0,
                        !.proc[p].at = "returned",
                        !.proc[p].download_time = TRUE,
                        !.proc[p].saw = "complete"]
    /\ UNCHANGED notDl

\* except KeyboardInterrupt: remove the partly written file and raise
DownloadInterrupt(p) ==
    /\ dl.proc[p].at = "writing"
    /\ dl' = [dl EXCEPT !.file = "absent", !.lock = 0, !.interrupted = TRUE,
                        !.proc[p].at = "raised"]
    /\ UNCHANGED notDl

----------------------------------------------------------------------------
(* MPRReader.select: filter and projection over iter(self)                 *)

MaxSelect == 3      \* most data rows the reader's iteration yields

\* the headers of the file and the data rows it may hold
SelectHeaders == <<"a", "b">>
SelectRows == {<<1, 10>>, <<2, 20>>}

\* a predicate, by the rows it is true of; None for no predicate
Predicates == {[given |-> FALSE, true_of |-> {}]}
                  \cup {[given |-> TRUE, true_of |-> S] : S \in SUBSET SelectRows}

\* the headers argument: None (the empty sequence) or a list of headers
Projections == {<<>>, <<"a">>, <<"b">>, <<"b", "a">>}

NoSelect == [state |-> "none", rows |-> <<>>, predicate |-> [given |-> FALSE, true_of |-> {}],
             headers |-> <<>>, mode |-> "iter", i |-> 0, rp |-> <<>>,
             list |-> 0, out |-> <<>>]

\* r.dict of a RowProxy, then itemgetter(*headers): the values of the
\* requested headers, in the order requested
itemgetter(headers, row) ==
    [k \in 1 .. Len(headers) |->
        row[CHOOSE j \in 1 .. Len(SelectHeaders) : SelectHeaders[j] = headers[k]]]

\* the rows of a sequence a predicate is true of, in order
RECURSIVE Filter(_, _)
Filter(q, predicate) ==
    IF q = <<>> THEN <<>>
    ELSE IF Head(q) \in predicate.true_of
    THEN <<Head(q)>> \o Filter(Tail(q), predicate)
    ELSE Filter(Tail(q), predicate)

\* the four branches at the end of select.  __iter__ yields one RowProxy
\* object, rp, and sets its row before each yield.  With a getter and a
\* predicate the inner call is the builtin filter, which under Python 2
\* runs the iteration to its end and returns a list; six.moves.map and
\* six.moves.filter are lazy.
MPRReader_select(data, predicate, headers) ==
    LET getter == headers # <<>>
        base0 == [NoSelect EXCEPT !.state = "open", !.rows = data,
                                  !.predicate = predicate, !.headers = headers]
    IN IF getter /\ predicate.given
       THEN [base0 EXCEPT !.mode = "map_list", !.i = Len(data),
                          !.rp = IF data = <<>> THEN <<>> ELSE data[Len(data)],
                          !.list = Len(Filter(data, predicate))]
       ELSE IF getter THEN [base0 EXCEPT !.mode = "map"]
       ELSE IF predicate.given THEN [base0 EXCEPT !.mode = "filter"]
       ELSE base0

\* next() on the lazy map, filter or plain iterator: iter(self) is run
\* to the next row that is wanted
select_next_lazy(o) ==
         LET rest == SubSeq(o.rows, o.i + 1, Len(o.rows))
             skip == IF o.mode = "filter"
                     THEN IF \E k \in 1 .. Len(rest) : rest[k] \in o.predicate.true_of
                          THEN (CHOOSE k \in 1 .. Len(rest) :
                                   /\ rest[k] \in o.predicate.true_of
                                   /\ \A j \in 1 .. k - 1 : rest[j] \notin o.predicate.true_of) - 1
                          ELSE Len(rest)
                     ELSE 0
         IN IF skip = Len(rest)
            THEN [o EXCEPT !.state = "done", !.i = Len(o.rows),
                           !.rp = IF o.rows = <<>> THEN <<>> ELSE o.rows[Len(o.rows)]]
            ELSE LET row == rest[skip + 1]
                 IN [o EXCEPT !.i = @ + skip + 1, !.rp = row,
                              !.out = Append(@, IF o.mode = "map"
                                                THEN itemgetter(o.headers, row)
                                                ELSE row)]

\* next() on what select returned: the item it yields is recorded with the
\* values it carries when it is yielded
select_next(o) ==
    IF o.mode = "map_list"
    THEN IF o.list = 0 THEN [o EXCEPT !.state = "done"]
         ELSE [o EXCEPT !.list = @ - 1,
                        !.out = Append(@, itemgetter(o.headers, o.rp))]
    ELSE select_next_lazy(o)

\* it = r.select(predicate, headers) on a reader whose iteration yields the rows data
Select(data, predicate, headers) ==
    /\ sel.state = "none"
    /\ sel' = MPRReader_select(data, predicate, headers)
    /\ UNCHANGED notSel

\* next(it)
SelectNext ==
    /\ sel.state = "open"
    /\ sel' = select_next(sel)
    /\ UNCHANGED notSel

----------------------------------------------------------------------------
(* MPRReader.meta_raw: the rows with their classification                  *)

MaxClassified == 3  \* most rows of the file that is classified

\* a list of row numbers or None, as a row spec holds it
LineLists(n) == {[none |-> TRUE, lines |-> {}]}
                    \cup {[none |-> FALSE, lines |-> S] : S \in SUBSET (0 .. n - 1)}

NoClassified == [state |-> "none", n |-> 0, hdr |-> NoHeader, i |-> 0, pos |-> 0,
                 out |-> <<>>]

\* the closed file left by set_row_spec(ri) on a writer that holds n rows:
\* the header as write_file_header packs it and a reader unpacks it, and
\* the row_spec of the meta
ClassifiedFile(n, header_lines, comment_lines, start_line, end_line) ==
    LET w0 == [MPRWriter_init(NoFile).w EXCEPT !.n_rows = n]
        w1 == set_row_spec(w0, start_line, end_line)
    IN [state |-> "open", n |-> n,
        hdr |-> read_file_header(write_file_header(w1)),
        row_spec |-> [header_rows |-> header_lines, comment_rows |-> comment_lines,
                      start_row |-> start_line, end_row |-> end_line],
        i |-> 0, pos |-> 0, out |-> <<>>]

\* x or []
OrEmpty(x) == IF x.none \/ x.lines = {} THEN {} ELSE x.lines

meta_raw_label_CommentFirst(o, i) ==
    LET hr == OrEmpty(o.row_spec.header_rows)
        cr == OrEmpty(o.row_spec.comment_rows)
        sr0 == IF Truthy(o.row_spec.start_row) THEN o.row_spec.start_row
               ELSE o.hdr.data_start_row
        er == IF Truthy(o.row_spec.end_row) THEN o.row_spec.end_row
              ELSE o.hdr.data_end_row
    IN IF i \in cr THEN "C"
       ELSE IF i \in hr THEN "H"
       ELSE IF sr0 <= i /\ i <= er THEN "D"
       ELSE "B"

\* the label meta_raw gives row i
meta_raw_label(o, i) ==
    LET hr == OrEmpty(o.row_spec.header_rows)
        cr == OrEmpty(o.row_spec.comment_rows)
        sr0 == IF Truthy(o.row_spec.start_row) THEN o.row_spec.start_row
               ELSE o.hdr.data_start_row
        er == IF Truthy(o.row_spec.end_row) THEN o.row_spec.end_row
              ELSE o.hdr.data_end_row
    IN IF i \in hr THEN "H"
       ELSE IF i \in cr THEN "C"
       ELSE IF sr0 <= i /\ i <= er THEN "D"
       ELSE "B"

\* it = f.reader.meta_raw on a file closed after set_row_spec
ClassifiedOpen(n, header_lines, comment_lines, start_line, end_line) ==
    /\ cls.state = "none"
    /\ cls' = ClassifiedFile(n, header_lines, comment_lines, start_line, end_line)
    /\ UNCHANGED notCls

\* next(it): raw is resumed, which adds 1 to self.pos after the row it
\* yielded before, and yields row i; meta_raw yields (i, self.pos, label)
ClassifiedNext ==
    /\ cls.state = "open"
    /\ LET pos == IF cls.i = 0 THEN 0 ELSE cls.pos + 1
       IN cls' = IF cls.i < cls.n
                 THEN [cls EXCEPT !.i = @ + 1, !.pos = pos,
                                  !.out = Append(@, [idx |-> cls.i, pos |-> pos,
                                                     label |-> meta_raw_label(cls, cls.i)])]
                 ELSE [cls EXCEPT !.state = "done", !.pos = pos]
    /\ UNCHANGED notCls

----------------------------------------------------------------------------
(* MPRWriter.close on a writer object that was closed before               *)

\* the client holds no closed writer
NoHeld == [state |-> "none", obj |-> NoWriter]

MPRWriter_close_Unguarded(o, d, cached) ==
    LET r == close(o, d)
    IN IF ~r.ok THEN [obj |-> o, disk |-> d, cached |-> cached, ok |-> FALSE]
       ELSE [obj |-> [o EXCEPT !.open = FALSE, !.cache = <<>>,
                               !.meta_start = r.disk.hdr.meta_start,
                               !.n_cols = r.disk.hdr.n_cols],
             disk |-> r.disk, cached |-> NoWriter, ok |-> TRUE]

\* MPRWriter.close on the object o, with the parent's cache: 'if self._fh:'
\* guards the whole body, which ends with self._fh = None and
\* self.parent._writer = None
MPRWriter_close(o, d, cached) ==
    IF o.open THEN MPRWriter_close_Unguarded(o, d, cached)
    ELSE [obj |-> o, disk |-> d, cached |-> cached, ok |-> TRUE]

\* w = f.writer; ...; w.close(), the client keeps w
CloseKeep ==
    /\ Idle
    /\ w.open
    /\ LET r == MPRWriter_close(w, disk, w)
       IN /\ w' = r.cached
          /\ disk' = r.disk
          /\ held' = IF r.ok THEN [state |-> "closed", obj |-> r.obj] ELSE held
          /\ last' = IF r.ok THEN Returned("close") ELSE Raised("close", "IOError")
    /\ UNCHANGED notHeld

\* with f.writer as w: w.set_row_spec(ri), up to the end of set_row_spec,
\* whose own 'with self.parent.writer' block has closed w
SetRowSpecKeep(s, e) ==
    /\ Idle
    /\ w.open
    /\ <<s, e>> \in RowSpecs(w.n_rows)
    /\ LET r == MPRWriter_close(set_row_spec(w, s, e), disk, w)
       IN /\ w' = r.cached
          /\ disk' = r.disk
          /\ held' = IF r.ok THEN [state |-> "in_with", obj |-> r.obj] ELSE held
          /\ last' = IF r.ok THEN Returned("set_row_spec")
                     ELSE Raised("set_row_spec", "IOError")
    /\ UNCHANGED notHeld

\* the close that follows on the held object: the exit of the caller's
\* 'with' block, or another w.close()
CloseAgain ==
    /\ Idle
    /\ held.state # "none"
    /\ LET r == MPRWriter_close(held.obj, disk, w)
       IN /\ w' = r.cached
          /\ disk' = r.disk
          /\ held' = [held EXCEPT !.state = "closed", !.obj = r.obj]
          /\ last' = IF r.ok THEN Returned("close_again")
                     ELSE Raised("close_again", "IOError")
    /\ UNCHANGED notHeld

----------------------------------------------------------------------------
(* MPRowsFile.close                                                        *)

\* MPRowsFile.close: 'if self._reader: self._reader.close()', then
\* 'if self._writer: self._reader.close()'.  MPRReader.close has set
\* parent._reader to None, so the second statement calls close on None.
MPRowsFile_close(r, wr, d) ==
    LET r1 == IF r.state = "open" THEN reader_close(r, d, "file") ELSE r
    IN [r |-> r1, w |-> wr,
        err |-> IF wr.open THEN "AttributeError" ELSE "none"]

\* f.close()
FileClose ==
    /\ Idle
    /\ LET x == MPRowsFile_close(rd, w, disk)
       IN /\ rd' = x.r
          /\ w' = x.w
          /\ last' = IF x.err = "none" THEN Returned("file_close")
                     ELSE Raised("file_close", x.err)
    /\ iter' = IF rd.state = "open" /\ iter.state \in {"created", "running"}
               THEN [iter EXCEPT !.cut = TRUE] ELSE iter
    /\ UNCHANGED <<disk, pc, largs, accepted, loadDone, notR>>

----------------------------------------------------------------------------
(* The header codec on its own                                             *)

BigOffset == 16777250       \* a meta_start that needs four of the eight bytes
BigCount == 258             \* a row count that needs two of the four bytes

HeaderObjects ==
    [n_rows : {0, 1, 2, 3, BigCount}, n_cols : {0, 2},
     meta_start : {FILE_HEADER_FORMAT_SIZE, BigOffset},
     data_start_row : 0 .. 2, data_end_row : {None} \cup (0 .. 3)]

HdrWrite ==
    /\ hbytes = <<>>
    /\ hbytes' = write_file_header(hin)
    /\ UNCHANGED <<hin, hout, notH>>

HdrRead ==
    /\ hbytes # <<>>
    /\ hout = NoHeader
    /\ hout' = read_file_header(hbytes)
    /\ UNCHANGED <<hin, hbytes, notH>>

----------------------------------------------------------------------------
(* Specifications                                                          *)

MInit ==
    /\ disk = NoFile
    /\ w = NoWriter
    /\ pc = "idle"
    /\ largs = NoArgs
    /\ last = Returned("init")
    /\ accepted = <<>>
    /\ loadDone = FALSE

TInit ==
    /\ mw = NoWriter
    /\ mdisk = NoFile
    /\ mhist = NoMetaHist
    /\ sw = NewSchemaOwner
    /\ slast = [op |-> "writer", err |-> "none"]

CInit0 ==
    /\ cin = <<>>
    /\ cwire = <<>>
    /\ cout = NoOut

RInit0 ==
    /\ rd = NoReader
    /\ iter = NoIter

NInit0 ==
    /\ nw = NoWriter
    /\ npassed = NonePassed

HInit ==
    /\ hin = [n_rows |-> 0, n_cols |-> 0, meta_start |-> FILE_HEADER_FORMAT_SIZE,
              data_start_row |-> 0, data_end_row |-> None]
    /\ hbytes = <<>>
    /\ hout = NoHeader

BInit0 == bf = NoBlockFile
GInit0 == mg = NoMangle
UInit0 == curs = Unmounted
DInit0 == db = NewConnection
QInit0 == sq = NoCreate
AInit0 == stat = NoStatSet

FInit0 == sr = NoRun /\ dl = NoDownload /\ sel = NoSelect /\ cls = NoClassified
          /\ held = NoHeld

EInit0 == BInit0 /\ GInit0 /\ UInit0 /\ DInit0 /\ QInit0 /\ AInit0 /\ FInit0

OInit == HInit /\ TInit /\ CInit0 /\ RInit0 /\ NInit0 /\ EInit0

Init == MInit /\ OInit

Next ==
    \/ OpenWriter
    \/ \E row \in Rows : InsertRow(row)
    \/ \E batch \in Batches : InsertRows(batch)
    \/ \E s \in 0 .. MaxRows, e \in {None} \cup (0 .. MaxRows) : SetRowSpec(s, e)
    \/ Finalize
    \/ CloseWriter
    \/ ReadRaw
    \/ ReadRows
    \/ Remove
    \/ Foreign
    \/ LoadRowsRefused
    \/ LoadRows
    \/ \E s \in 0 .. MaxRows, e \in {None} \cup (0 .. MaxRows) : LoadIntuitRows(s, e)
    \/ LoadIntuitRowsWarn
    \/ \E step \in {"rowspec", "types", "stats"} : LoadStepError(step)
    \/ LoadSpecRows
    \/ LoadSkipRows
    \/ \E has_meta \in BOOLEAN : LoadSourceMeta(has_meta)
    \/ LoadTypes
    \/ LoadStats
    \/ LoadFinalize

Spec == Init /\ [][Next]_vars

HdrInit ==
    /\ MInit
    /\ hin \in HeaderObjects
    /\ hbytes = <<>>
    /\ hout = NoHeader
    /\ TInit /\ CInit0 /\ RInit0 /\ NInit0 /\ EInit0

HdrNext == HdrWrite \/ HdrRead

HdrSpec == HdrInit /\ [][HdrNext]_vars

MetaInit == MInit /\ OInit

MetaNext ==
    \/ \E now \in Times : MetaOpenWriter(now)
    \/ \E row \in Rows : MetaInsertRow(row)
    \/ MetaFinalize
    \/ MetaCloseWriter
    \/ MetaRemove

MetaSpec == MetaInit /\ [][MetaNext]_vars

SchemaNext ==
    \/ \E c \in 1 .. MaxCols : SchemaWriteRows(c)
    \/ SchemaGetHeaders
    \/ \E hs \in HeaderLists : SchemaSetHeaders(hs)
    \/ \E k \in 1 .. MaxCols : SchemaSetTypes(k)
    \/ \E k \in 1 .. MaxCols : SchemaSetStats(k)
    \/ \E k \in 1 .. MaxCols : SchemaSetSourceSpec(k)
    \/ \E hs \in HeaderLists : SchemaSetRowSpec(hs)
    \/ SchemaNew

SchemaSpec == MetaInit /\ [][SchemaNext]_vars

CellInit ==
    /\ MInit /\ HInit /\ TInit /\ RInit0 /\ NInit0 /\ EInit0
    /\ cin \in CellRows
    /\ cwire = <<>>
    /\ cout = NoOut

CellNext == CellWrite \/ CellRead

CellSpec == CellInit /\ [][CellNext]_vars

ColsInit ==
    /\ MInit /\ HInit /\ TInit /\ CInit0 /\ RInit0 /\ EInit0
    /\ nw = MPRWriter_init(NoFile).w
    /\ npassed = NonePassed

ColsNext ==
    \/ \E row \in Rows : ColsInsertRow(row)
    \/ \E batch \in LongBatches : ColsInsertRows(batch)

ColsSpec == ColsInit /\ [][ColsNext]_vars

ReaderInit ==
    /\ disk \in ReaderFiles
    /\ w = NoWriter
    /\ pc = "idle"
    /\ largs = NoArgs
    /\ last = Returned("init")
    /\ accepted = raw(disk)
    /\ loadDone = FALSE
    /\ HInit /\ TInit /\ CInit0 /\ RInit0 /\ NInit0 /\ EInit0

ReaderNext ==
    \/ \E cext \in BOOLEAN : ReaderOpen(cext)
    \/ \E kind \in {"raw", "rows", "iter"}, drop \in BOOLEAN : IterNew(kind, drop)
    \/ IterNext
    \/ ReaderMeta
    \/ ReaderClose
    \/ OpenWriter

ReaderSpec == ReaderInit /\ [][ReaderNext]_vars

BlockNext ==
    \/ BlockOpenWriter
    \/ \E name \in Names : BlockSetHeaders(name)
    \/ BlockClose

BlockSpec == Init /\ [][BlockNext]_vars

MangleInit ==
    /\ MInit /\ HInit /\ TInit /\ CInit0 /\ RInit0 /\ NInit0
    /\ BInit0 /\ UInit0 /\ DInit0 /\ QInit0 /\ AInit0 /\ FInit0
    /\ mg \in {[NoMangle EXCEPT !.in = x] : x \in Strings}

MangleNext == MangleOnce \/ MangleAgain

MangleSpec == MangleInit /\ [][MangleNext]_vars

CursorInit ==
    /\ disk \in ReaderFiles
    /\ w = NoWriter
    /\ pc = "idle"
    /\ largs = NoArgs
    /\ last = Returned("init")
    /\ accepted = raw(disk)
    /\ loadDone = FALSE
    /\ HInit /\ TInit /\ CInit0 /\ RInit0 /\ NInit0
    /\ BInit0 /\ GInit0 /\ DInit0 /\ QInit0 /\ AInit0 /\ FInit0
    /\ \E cext \in BOOLEAN : curs = Mounted(disk, cext)

CursorsNext ==
    \/ \E c \in CursorIds, cext \in BOOLEAN : CursorOpen(c, cext)
    \/ \E c \in CursorIds : CursorNext(c)
    \/ \E c \in CursorIds : CursorClose(c)

CursorSpec == CursorInit /\ [][CursorsNext]_vars

DbNext ==
    \/ InstallModule
    \/ \E name \in TableNames : CreateView(name)
    \/ \E mpr \in Mprs, table \in TableNames : AddPartition(mpr, table)

DbSpec == Init /\ [][DbNext]_vars

CreateInit ==
    /\ MInit /\ HInit /\ TInit /\ CInit0 /\ RInit0 /\ NInit0
    /\ BInit0 /\ GInit0 /\ UInit0 /\ DInit0 /\ AInit0 /\ FInit0
    /\ sq \in {[NoCreate EXCEPT !.in = cols] : cols \in ColumnLists}

CreateNext == SourceCreate \/ SourceDestroy

CreateSpec == CreateInit /\ [][CreateNext]_vars

StatNext ==
    \/ \E v \in StatValues : StatAdd(v)
    \/ \E lom \in Loms : StatNew(lom)

StatInit ==
    /\ MInit /\ HInit /\ TInit /\ CInit0 /\ RInit0 /\ NInit0
    /\ BInit0 /\ GInit0 /\ UInit0 /\ DInit0 /\ QInit0 /\ FInit0
    /\ stat = NewStatSet

StatSpec == StatInit /\ [][StatNext]_vars

RunNext ==
    \/ \E sample_from \in SampleFroms, n \in 0 .. MaxSource :
           RunStart(sample_from, n)
    \/ RunRow
    \/ RunReturn

RunSpec == Init /\ [][RunNext]_vars

DownloadNext ==
    \/ \E p \in Procs, clean \in BOOLEAN : DownloadCall(p, clean)
    \/ \E p \in Procs : DownloadCheck(p)
    \/ \E p \in Procs : DownloadLock(p)
    \/ \E p \in Procs : DownloadOpen(p)
    \/ \E p \in Procs : DownloadWrite(p)
    \/ \E p \in Procs : DownloadInterrupt(p)

DownloadSpec == Init /\ [][DownloadNext]_vars

SelectNext0 ==
    \/ \E data \in SeqsUpTo(SelectRows, MaxSelect), predicate \in Predicates,
          headers \in Projections : Select(data, predicate, headers)
    \/ SelectNext

SelectSpec == Init /\ [][SelectNext0]_vars

ClassifiedNext0 ==
    \/ \E n \in 0 .. MaxClassified :
          \E header_lines \in LineLists(n), comment_lines \in LineLists(n),
             se \in RowSpecs(n) :
              ClassifiedOpen(n, header_lines, comment_lines, se[1], se[2])
    \/ ClassifiedNext

ClassifiedSpec == Init /\ [][ClassifiedNext0]_vars

CloseNext ==
    \/ OpenWriter
    \/ \E batch \in Batches : InsertRows(batch)
    \/ Finalize
    \/ CloseKeep
    \/ \E se \in RowSpecs(MaxRows) : SetRowSpecKeep(se[1], se[2])
    \/ CloseAgain

CloseSpec == Init /\ [][CloseNext]_vars

FileCloseNext ==
    \/ \E cext \in BOOLEAN : ReaderOpen(cext)
    \/ OpenWriter
    \/ CloseWriter
    \/ ReaderClose
    \/ FileClose

FileCloseSpec == ReaderInit /\ [][FileCloseNext]_vars

----------------------------------------------------------------------------
(* Claims C1 .. C10                                                        *)

\* C1: the n_rows field of the header equals the number of rows a raw
\* iteration of a reader opened on the closed file yields.
C1_RowCount ==
    (last.op = "raw" /\ last.err = "none") => last.hdr.n_rows = Len(last.out)

\* C2: a raw iteration after close yields the rows of the insert_row and
\* insert_rows calls that returned, in the order in which they were passed:
\* none lost, none twice, none out of order.
C2_InsertionOrder == last.op = "raw" => last.out = accepted

C2_Witness ==
    /\ last.op = "raw"
    /\ last.out = << <<2, 3>>, <<1>> >>
    /\ Len(disk.stream) = 2

\* C3: a data iteration of a fresh reader on a closed file that has rows
\* yields exactly data_end_row - data_start_row + 1 rows, with both values
\* as read from the header.
C3_DataRange ==
    (last.op = "rows" /\ last.err = "none" /\ last.hdr.n_rows > 0)
        => Len(last.out) = last.hdr.data_end_row - last.hdr.data_start_row + 1

\* C4: every header that close has written satisfies
\* 0 <= data_start_row <= data_end_row < n_rows when n_rows > 0.
C4_HeaderRange ==
    (disk.exists /\ ~w.open /\ disk.hdr.n_rows > 0)
        => /\ 0 <= disk.hdr.data_start_row
           /\ disk.hdr.data_start_row <= disk.hdr.data_end_row
           /\ disk.hdr.data_end_row < disk.hdr.n_rows

\* a header with valid field ranges
ValidHeader(h) ==
    /\ h.data_end_row # None
    /\ 0 <= h.data_start_row
    /\ h.data_start_row <= h.data_end_row
    /\ h.data_end_row < h.n_rows

\* C5: for a header h with valid field ranges, read_file_header of the bytes
\* of write_file_header(h) gives magic AMBRMPDF, version 1 and the five
\* numeric fields of h.
C5_HeaderRoundTrip ==
    (hout # NoHeader /\ ValidHeader(hin))
        => /\ hout.magic = MAGIC
           /\ hout.version = VERSION
           /\ hout.n_rows = hin.n_rows
           /\ hout.n_cols = hin.n_cols
           /\ hout.meta_start = hin.meta_start
           /\ hout.data_start_row = hin.data_start_row
           /\ hout.data_end_row = hin.data_end_row

\* C6: a reader opened on a file whose header unpacks but whose magic is not
\* AMBRMPDF or whose version is not 1 fails with CorruptFile and returns no
\* rows.
C6_CorruptFile ==
    (last.op \in {"raw", "rows"}
        /\ (last.hdr.magic # MAGIC \/ last.hdr.version # VERSION))
        => (last.err = "CorruptFile" /\ last.out = <<>>)

\* C7: when load_rows fails in its load step, the file no longer exists at
\* the moment the error reaches the caller.
C7_LoadFailureRemoves ==
    (last.op = "load_rows" /\ last.at = "load" /\ last.err \notin {"none", "running"})
        => ~disk.exists

\* C8: an error of the row-intuition, type-intuition or stats step is not
\* propagated to the caller of load_rows: no load_rows call ends in one of
\* these steps with the error.
C8_OptionalStepRecovered ==
    ~(last.op = "load_rows" /\ last.at \in {"rowspec", "types", "stats"}
        /\ last.err \notin {"none", "running"})

\* C9 as claimed: the persisted flag process.finalized is true if and only
\* if a load_rows run on the file went through all its steps.
C9_FinalizedIffLoad == (disk.exists /\ is_finalized(disk)) <=> loadDone

\* C9 as amended: the persisted flag becomes true only in a writer close
\* after finalize was called on that writer -- the last step of load_rows,
\* or the close of a writer a client has called finalize on -- and a
\* completed load_rows run always leaves it true.
C9_FinalizedByFinalize ==
    /\ [][(is_finalized(disk') /\ ~is_finalized(disk))
            => \/ pc = "finalize" /\ pc' = "idle" /\ loadDone'
               \/ w.open /\ w.meta.finalized /\ ~w'.open]_vars
    /\ []((last.op = "load_rows" /\ last.err = "none")
            => (disk.exists /\ is_finalized(disk)))

C9_Witness ==
    /\ last.op = "load_rows"
    /\ last.err = "none"
    /\ loadDone
    /\ is_finalized(disk)
    /\ disk.hdr.n_rows = 2

\* C10: an attempt to append rows through a writer re-opened on a file that
\* was closed with process.finalized = true is rejected with
\* AlreadyFinalized.
C10_AlreadyFinalized ==
    (/\ disk.exists /\ disk.meta.finalized
     /\ w.open
     /\ last.op \in {"insert_row", "insert_rows"}
     /\ w.n_rows > disk.hdr.n_rows)
        => last.err = "AlreadyFinalized"

----------------------------------------------------------------------------
(* Claims C11 .. C20                                                       *)

\* C11: after a file was finalized and closed, a writer that is opened on
\* it and closed without any call in between leaves the same meta, the
\* same header fields n_rows, n_cols, data_start_row, data_end_row and the
\* same raw rows; also for a file with zero rows.
C11_ReopenSame ==
    (/\ ~mw.open /\ mdisk.exists
     /\ mhist.op = "close" /\ mhist.err = "none" /\ ~mhist.touched
     /\ mhist.before.exists /\ mhist.before.meta.finalized)
        => /\ mdisk.meta = mhist.before.meta
           /\ mdisk.hdr.n_rows = mhist.before.hdr.n_rows
           /\ mdisk.hdr.n_cols = mhist.before.hdr.n_cols
           /\ mdisk.hdr.data_start_row = mhist.before.hdr.data_start_row
           /\ mdisk.hdr.data_end_row = mhist.before.hdr.data_end_row
           /\ raw(mdisk) = raw(mhist.before)

\* C12: a writer is never open on the file while a reader is open on it.
C12_Exclusive == ~(w.open /\ rd.state = "open")

\* C13: read_meta leaves the handle where it found it, and an iteration
\* during which the meta was read yields the rows it yields otherwise.
C13_MetaRead ==
    /\ rd.meta_pos.after = rd.meta_pos.before
    /\ (iter.n = 1 /\ iter.state = "done" /\ iter.metar /\ iter.err = "none")
        => iter.out = Expected(iter.kind, disk)

C13_Witness ==
    /\ iter.kind = "rows" /\ iter.n = 1 /\ iter.state = "done" /\ iter.metar
    /\ rd.meta_pos.before = FILE_HEADER_FORMAT_SIZE
    /\ Len(iter.out) = 2

\* C14: an iteration of a new reader ends, without an error, after the
\* last row stored before meta_start, and the compressor is left at
\* meta_start: nothing of the meta block is decoded.
C14_StopAtMeta ==
    (iter.n = 1 /\ iter.state = "done" /\ ~iter.cut)
        => /\ iter.err = "none"
           /\ iter.out = Expected(iter.kind, disk)
           /\ rd.fpos <= disk.hdr.meta_start

C14_Witness ==
    /\ iter.kind = "raw" /\ iter.n = 1 /\ iter.state = "done" /\ ~iter.cut
    /\ Len(disk.stream) = 2
    /\ Len(iter.out) = 2
    /\ rd.fpos = disk.hdr.meta_start

\* C15: every iterator started on a reader, also one started after an
\* earlier iterator of that reader was consumed in part or in full,
\* yields the rows the first iterator yields.
C15_Restart ==
    (iter.n >= 1 /\ iter.state = "done" /\ ~iter.cut)
        => (iter.err = "none" /\ iter.out = Expected(iter.kind, disk))

\* C16: rows whose cells are int, float, string, none, date, time or
\* datetime values come back from a raw read of the closed file as rows of
\* the same length with the same cell values and types.
C16_RowRoundTrip ==
    (cout # NoOut /\ \A i \in 1 .. Len(cin) : cin[i].t \in SupportedTypes)
        => (cout.err = "none" /\ cout.rows = <<cin>>)

\* C17: decoding a map that carries none of the keys __datetime__,
\* __date__, __time__ fails with CorruptFile; a map with one of them is
\* rebuilt as the datetime, date or time value.
C17_UnknownMap ==
    cout # NoOut =>
        /\ (\E i \in 1 .. Len(cwire) :
              /\ cwire[i].t = "map"
              /\ cwire[i].keys \cap {"__datetime__", "__date__", "__time__"} = {})
            => cout.err = "CorruptFile"
        /\ (\A i \in 1 .. Len(cwire) :
              cwire[i].t = "map" => "value" \in cwire[i].keys)
            => /\ cout.err = "none"
               /\ \A i \in 1 .. Len(cwire) : cout.rows[1][i].t = cin[i].t

\* C18: after any sequence of insert_row and insert_rows calls, n_rows is
\* the number of rows passed in and n_cols the greatest length of a row
\* passed in.
C18_Counts ==
    nw.open => (nw.n_rows = npassed.count /\ nw.n_cols = npassed.width)

\* C19: once an append has raised IOError, the writer rejects the next
\* insert_row, insert_rows or close: none of them returns normally.
C19_Poisoned ==
    [][(/\ w.open
        /\ last.op \in {"insert_row", "insert_rows"}
        /\ last.err = "IOError"
        /\ last'.op \in {"insert_row", "insert_rows", "close"})
            => last'.err # "none"]_vars

\* a schema whose first entry is the template and whose i-th column row has
\* as many values as the template and pos = i
ValidSchema(s) ==
    /\ Len(s) >= 1
    /\ s[1] = SCHEMA_TEMPLATE
    /\ \A i \in 2 .. Len(s) :
        /\ Len(s[i]) = Len(SCHEMA_TEMPLATE)
        /\ RowProxy_get(s[i], "pos") = ToString(i - 1)

\* C20: after any sequence of writer operations and on every metadata
\* read, schema[0] is SCHEMA_TEMPLATE and every schema[i], i >= 1, has as
\* many values as the template and pos = i.
C20_SchemaShape == ValidSchema(sw.meta.schema)

C20_Witness ==
    /\ Len(sw.meta.schema) = 3
    /\ RowProxy_get(sw.meta.schema[2], "name") = "a"
    /\ RowProxy_get(sw.meta.schema[3], "name") = "col2"
    /\ RowProxy_get(sw.meta.schema[3], "type_count") = "1"
    /\ RowProxy_get(sw.meta.schema[2], "stat_count") = "1"
    /\ RowProxy_get(sw.meta.schema[2], "description") = "a"

----------------------------------------------------------------------------
(* Claims C21 .. C30                                                       *)

\* C21: for every closed file, the bytes from meta_start to the end of the
\* file are exactly the compressed encoding of the meta the last writer
\* held at close, and the meta a reader reads equals that meta.
C21_MetaBlock ==
    (bf.exists /\ ~bf.open) =>
        /\ bf.tail = compress(packb_meta(bf.held))
        /\ read_meta_bytes(bf.tail) = [ok |-> TRUE, meta |-> bf.held]

\* C22: for every input string, mangling what the mangler returned changes
\* nothing, and what it returns consists of a-z, 0-9 and _ only, is not
\* empty and neither starts nor ends with _.
C22_Mangle ==
    mg.step = 2 =>
        /\ mg.again = mg.out
        /\ \A i \in 1 .. Len(mg.out) :
               mg.out[i] \in (97 .. 122) \cup (48 .. 57) \cup {95}
        /\ mg.out # <<>>
        /\ mg.out[1] # 95
        /\ mg.out[Len(mg.out)] # 95


\* C23: two cursors on the same virtual table read through their own
\* readers: no call on a cursor fails because of the other one, and a
\* cursor that reaches Eof has returned the complete data row sequence.
C23_Independent ==
    \A c \in CursorIds :
        LET cu == curs.cur[c]
        IN /\ rows(disk) # <<>> => (cu.state # "failed" /\ cu.err = "none")
           /\ (cu.state = "open" /\ Eof(cu)) => cu.g.out = rows(disk)

\* a cursor whose reader no other cursor has used
Alone(c) == curs.cur[c].rid # None /\ curs.users[curs.cur[c].rid] = 1

\* C24: a full scan of the mounted table (Open, then Next until Eof)
\* visits as many rows as the n_rows of the file.
C24_CountAll ==
    \A c \in CursorIds :
        LET cu == curs.cur[c]
        IN Alone(c) =>
             /\ cu.state # "failed"
             /\ (cu.state = "open" /\ Eof(cu)) => Len(cu.g.out) = disk.hdr.n_rows

\* C25: for a cursor over N >= 1 rows, Rowid is k + 1 after k < N Next
\* calls and Column(i) is cell i of row k + 1; from the N-th Next on Eof is
\* true and Rowid is N.
C25_Stepping ==
    \A c \in CursorIds :
        LET cu == curs.cur[c]
            N == Len(rows(disk))
        IN (Alone(c) /\ N >= 1 /\ cu.state # "closed") =>
             /\ cu.state = "open" /\ cu.err = "none"
             /\ cu.nexts < N =>
                  /\ ~Eof(cu)
                  /\ Rowid(cu) = cu.nexts + 1
                  /\ Len(cu.current_row) = Len(rows(disk)[cu.nexts + 1])
                  /\ \A i \in 0 .. Len(cu.current_row) - 1 :
                         Column(cu, i) = rows(disk)[cu.nexts + 1][i + 1]
             /\ cu.nexts >= N => (Eof(cu) /\ Rowid(cu) = N)

C25_Witness ==
    /\ Alone(1) /\ curs.cur[1].state = "open"
    /\ Len(rows(disk)) = 2 /\ rows(disk)[2] = <<2, 3>>
    /\ curs.cur[1].nexts = 4 /\ Eof(curs.cur[1]) /\ Rowid(curs.cur[1]) = 2

\* C26: add_partition on a name that is already a table or view executes
\* no CREATE VIRTUAL TABLE and leaves the relations of the connection as
\* they are; of two calls with the same arguments, the first of which
\* created the table, only the first executes CREATE; installing the
\* module again is a no-op.
C26_Idempotent ==
    [][/\ (db'.ncalls = db.ncalls + 1 /\ db'.last.existed) =>
             /\ db'.creates = db.creates
             /\ db'.relations = db.relations
             /\ db'.last.err = "none"
       /\ \A a \in TableNames \X Mprs :
             (Hist(db', a).calls >= 2 /\ Hist(db', a).first = "created") =>
                 Hist(db', a).creates = 1
       /\ (db.module /\ db'.last.table = "install") =>
             (db'.module /\ db'.relations = db.relations /\ db'.creates = db.creates)
      ]_vars

C26_Witness ==
    /\ Hist(db, <<"t1", [exists |-> TRUE, convertible |-> TRUE]>>).calls = 2
    /\ Hist(db, <<"t1", [exists |-> TRUE, convertible |-> TRUE]>>).first = "created"
    /\ db.last.existed /\ db.last.table = "t1" /\ db.creates = 1

\* C27: add_partition on an MPR file that does not exist raises
\* VirtualTableError and executes no CREATE VIRTUAL TABLE, whether or not a
\* relation of the requested name exists.
C27_Missing ==
    (db.last.table \in TableNames /\ ~db.last.mpr.exists) =>
        (db.last.err = "VirtualTableError" /\ db.last.created = 0)


\* the SQL type the claim gives for a column type
ClaimedType(t) ==
    CASE t = "int" -> "INTEGER"
      [] t = "float" -> "REAL"
      [] t \in {"str", "unicode"} -> "TEXT"
      [] t = "date" -> "DATE"
      [] t = "datetime" -> "TIMESTAMP WITHOUT TIME ZONE"
      [] t = "time" -> "TEXT"
      [] OTHER -> NoneCell

\* C28: Source.Create emits one SQL column per schema column in ascending
\* pos order with the types int -> INTEGER, float -> REAL, string ->
\* TEXT, date -> DATE, datetime -> TIMESTAMP WITHOUT TIME ZONE and time ->
\* TEXT; for any other column type it raises and returns no table.
C28_Create ==
    sq.done =>
        LET sorted == SortedByPos(sq.in)
        IN /\ \A i \in 1 .. Len(sorted) - 1 : sorted[i].pos < sorted[i + 1].pos
           /\ IF \A i \in 1 .. Len(sorted) : ClaimedType(sorted[i].type) # NoneCell
              THEN /\ sq.out.err = "none"
                   /\ sq.out.columns =
                        [i \in 1 .. Len(sorted) |->
                           <<sorted[i].name, ClaimedType(sorted[i].type)>>]
              ELSE sq.out = [err |-> "Exception", columns |-> <<>>]


\* C29: the sum of the histogram bins is at most the number of values
\* added, equals it when all added values lie within [bin_min, bin_max],
\* and every bin index add computes lies in 0 .. num_bins - 1.
C29_Histogram ==
    /\ SumSeq(stat.bins) <= stat.n
    /\ (/\ stat.bin_width # None
        /\ \A i \in 1 .. Len(stat.added) :
               stat.added[i] >= stat.bin_min /\ stat.added[i] <= stat.bin_max)
           => SumSeq(stat.bins) = stat.n
    /\ \A b \in stat.idx : b \in 0 .. num_bins - 1

\* the order of the steps of _load_rows
StepOrder ==
    {<<"idle", "rowspec">>, <<"rowspec", "srcmeta">>, <<"srcmeta", "types">>,
     <<"types", "stats">>, <<"stats", "finalize">>, <<"finalize", "idle">>}

\* C30: the steps of load_rows occur in the order load, row spec, type
\* intuition, stats, finalize; no writer is open between two steps; a
\* disabled step changes nothing; and a load with intuit_type and
\* run_stats enabled of a source with rows goes from the stats step on to
\* finalize and ends with the file finalized.
C30_StepOrder ==
    /\ [][/\ (pc' # pc /\ last'.err \in {"none", "running"}) => <<pc, pc'>> \in StepOrder
          /\ (pc = "types" /\ ~largs.intuit_type) => (pc' = "stats" /\ disk' = disk)
          /\ (pc = "stats" /\ ~largs.run_stats) => (pc' = "finalize" /\ disk' = disk)
          /\ (/\ pc = "stats" /\ largs.intuit_type /\ largs.run_stats
              /\ disk.hdr.n_rows # 0) => pc' = "finalize"
          /\ (pc = "finalize" /\ pc' = "idle") =>
                (last'.err = "none" /\ is_finalized(disk'))
         ]_vars
    /\ [](pc # "idle" => ~w.open)


----------------------------------------------------------------------------
(* Claims C31 .. C40                                                       *)

\* the rows the run is to process: all of them for sample_from None or at
\* most SAMPLE_ROWS, else those whose index is a multiple of the stride
Sampled(sample_from, n) ==
    IF sample_from = None \/ sample_from <= SAMPLE_ROWS THEN 0 .. n - 1
    ELSE {i \in 0 .. n - 1 : i % (sample_from \div SAMPLE_ROWS) = 0}

PrimerUniques(o, k) == Cardinality({o.added[i] : i \in 1 .. k})

UVALUES_MOST == 100

\* C33: after any sequence of add calls count is the number of add calls
\* and nuniques the number of distinct values added since the start,
\* whatever the level of measurement and also past the primer; uvalues
\* has at most 100 entries.
C33_Uniques ==
    /\ stat.n = Len(stat.added)
    /\ nuniques(stat) = Cardinality(Distinct(stat.added))
    /\ Cardinality(most_common(stat, UVALUES_MOST)) <= UVALUES_MOST

\* what select is to yield: the rows the predicate is true of (all rows
\* without a predicate), each projected onto the headers (whole without)
Selected(o) ==
    LET kept == IF o.predicate.given THEN Filter(o.rows, o.predicate) ELSE o.rows
    IN [k \in 1 .. Len(kept) |->
           IF o.headers = <<>> THEN kept[k] ELSE itemgetter(o.headers, kept[k])]

\* C34: select yields, in file order, for each data row the predicate is
\* true of the projection of that same row onto the requested headers;
\* every row without a predicate, the whole row without headers.
C34_Select ==
    /\ Len(sel.out) <= Len(Selected(sel))
    /\ \A k \in 1 .. Len(sel.out) : sel.out[k] = Selected(sel)[k]
    /\ sel.state = "done" => Len(sel.out) = Len(Selected(sel))

\* the label a row is to get: H before C before D; an end_row of None or 0
\* is the one the writer stores for 'no end'
Label(o, i) ==
    IF ~o.row_spec.header_rows.none /\ i \in o.row_spec.header_rows.lines THEN "H"
    ELSE IF ~o.row_spec.comment_rows.none /\ i \in o.row_spec.comment_rows.lines
    THEN "C"
    ELSE IF /\ o.row_spec.start_row <= i
            /\ (Truthy(o.row_spec.end_row) => i <= o.row_spec.end_row)
    THEN "D"
    ELSE "B"

C36_CloseTwice ==
    [][last'.op = "close_again" =>
          /\ last'.err = "none"
          /\ disk' = disk
          /\ w' = w
          /\ (last.op \in {"close", "set_row_spec", "close_again"} /\ last.err = "none")
                 => ~w'.open
      ]_vars

C36_Witness ==
    /\ last.op = "close_again"
    /\ held.obj.data_start_row = 1
    /\ disk.hdr.data_start_row = 1
    /\ disk.hdr.n_rows = 2
    /\ ~w.open

\* C37: load_rows on a file whose header counts rows raises MPRError, opens
\* no writer and leaves header, row stream and meta as they are; on a file
\* that does not exist or counts no rows it is not refused.
C37_Refused ==
    [][(pc = "idle" /\ last'.op = "load_rows") =>
          IF disk.exists /\ disk.hdr.n_rows > 0
          THEN /\ last'.err = "MPRError"
               /\ disk' = disk
               /\ w' = w /\ ~w'.open
               /\ pc' = "idle"
          ELSE last'.err # "MPRError"
      ]_vars

C37_Witness ==
    /\ last.op = "load_rows" /\ last.err = "MPRError"
    /\ disk.hdr.n_rows = 2
    /\ Len(raw(disk)) = 2
    /\ ~w.open

\* C38: Open on a table whose data iteration yields no row gives a cursor
\* that is at Eof at once; it does not raise.
C38_EmptyTable ==
    \A c \in CursorIds :
        LET cu == curs.cur[c]
        IN (Alone(c) /\ rows(disk) = <<>> /\ cu.state \notin {"none", "closed"}) =>
             /\ cu.state = "open"
             /\ cu.err = "none"
             /\ Eof(cu)

\* C39: of the processes that call download for the same URL and cache at
\* the same time at most one fetches the URL and writes the cache file; no
\* call returns the cache path while the file is being written; a call
\* that finds the entry returns it without a fetch, download_time False.
C39_OneFetch ==
    /\ (~dl.cleaned /\ ~dl.interrupted) => dl.fetches <= 1
    /\ \A p \in Procs :
           dl.proc[p].at = "returned" =>
               /\ dl.proc[p].saw # "partial"
               /\ ~dl.proc[p].fetched => ~dl.proc[p].download_time

\* C40: MPRowsFile.close returns without an error and leaves neither the
\* cached reader nor the cached writer open, whether a reader, a writer or
\* both were open before the call.
C40_CloseAll ==
    last.op = "file_close" =>
        /\ last.err = "none"
        /\ rd.state # "open"
        /\ ~w.open


====
